---------------------------- MODULE Spec2Model ----------------------------
(***************************************************************************)
(* A model of freud's cell-list neighbour search (locality/LinkCell.h) and *)
(* of the pair-compute driver (locality/NeighborComputeFunctional.h).      *)
(*                                                                         *)
(* Each component has a specification of its own over the shared           *)
(* variables; a component that a specification does not exercise keeps     *)
(* its idle value.                                                         *)
(*   SpecShell    IteratorCellShell                                        *)
(*   SpecWrap     LinkCell::getCellIndex                                   *)
(*   SpecCellList LinkCell::computeCellList and IteratorLinkCell           *)
(*   SpecBall     LinkCellQueryBallIterator                                *)
(*   SpecKnn      LinkCellQueryIterator                                    *)
(*   SpecCache    LinkCell::getCellNeighbors, called from several threads  *)
(*   SpecDriver   loop_over_NeighborList, its range split across workers   *)
(*   SpecCoord    LinkCell::getCellCoord                                   *)
(*   SpecShellPair two IteratorCellShell advanced independently            *)
(*   SpecEts      ETSArrayWrapper, accessed by several workers             *)
(*   SpecCursor   IteratorLinkCell used on a built cell list               *)
(*                                                                         *)
(* Floating point positions are modelled as integer lattice coordinates    *)
(* and distances by their exact squares.                                   *)
(***************************************************************************)
EXTENDS Integers, Sequences, FiniteSets, Bags, TLC

VARIABLES
    shell,      \* the IteratorCellShell under test (its fields)
    shellOut,   \* offsets dereferenced so far at the current range, in order
    shellDone,  \* the last completed shell: [range, offsets], range -1 if none
    shellStart, \* the range the enumerator was constructed with
    shellAll,   \* every offset it has stood on since its construction, in order
    wrapDims,   \* getCellIndexer(): <<w, h, d>>
    wrapCoord,  \* the cellCoord argument of the last getCellIndex call
    wrapResult, \* <<id>>: what that call returned; <<>> before any call
    wrapBase,   \* <<id>>: what the first call returned; <<>> before any call
    m_box,        \* LinkCell (NeighborQuery): the box, [L, periodic, is2D]
    m_cell_width, \* LinkCell: the nominal cell width handed to the constructor
    m_cell_index, \* LinkCell: the indexer's <<w, h, d>>
    m_points,     \* LinkCell (NeighborQuery): the indexed points, point i at [i + 1]
    m_n_points,   \* LinkCell: number of points last placed into the cell list
    m_cell_list,  \* LinkCell: the cell list, slots 0 .. n_points + n_cells - 1
    lcBuilds,     \* how often computeCellList has run (2 stands for 2 or more)
    qit,          \* the per-point query iterator (LinkCellIterator and subclass)
    qout,         \* the bonds its next() calls have returned, in order
    qreq,         \* the arguments the iterator was asked for: [num_neighbors, r_max]
    qlate,        \* the number of next() calls made after the iterator finished
    m_cell_neighbors, \* LinkCell: the hash map cell id -> neighbor cell ids
    cnThread,     \* per thread, where it is in getCellNeighbors: [pc, cell]
    cnLast,       \* the last return of getCellNeighbors: <<[cell, list]>>
    nlist,        \* driver: <<>> (NULL) or <<the NeighborList>>
    dvYields,     \* per query index, the bonds its iterator yields, in order
    qargs,        \* the query arguments: [exclude_ii]
    dvPending,    \* the sub-ranges [begin, end) no worker has taken yet
    dvWorker,     \* per worker, its position in the range body
    dvCalls,      \* per loop index, the cf(...) calls made for it, in order
    dvQueries,    \* per query index, the number of iter->query(i) calls
    dvRun,        \* 1 in the first run of the driver, 2 in the second
    dvPrev,       \* dvCalls at the end of the first run
    dvLog,        \* per query point, what was done with its iterator, in order
    ccPoint,      \* the position getCellCoord is called on
    ccResult,     \* <<>> or <<the cell coordinate the last call returned>>
    ccBase,       \* <<>> or <<the cell coordinate the first call returned>>
    spA,          \* one of two enumerators constructed alike: [it, n], n advances
    spB,          \* the other one
    etsPool,      \* the ETSArrayWrapper: [m_size, finit, array, alive]
    etsHeap,      \* every array ever allocated, by handle: [len, data, released]
    etsPc,        \* per worker: "idle", or "miss" inside array.local()
    etsOp,        \* the last operation on the pool: [kind, w, h, first, before]
    etsTouched,   \* the workers that called array.local() since the last update
    cursor        \* an IteratorLinkCell in use: [it, yield, last, reads, stray,
                  \* lost, begins]

shellVars == <<shell, shellOut, shellDone, shellStart, shellAll>>
wrapVars == <<wrapDims, wrapCoord, wrapResult, wrapBase>>
lcVars == <<m_box, m_cell_width, m_cell_index, m_points, m_n_points, m_cell_list,
            lcBuilds>>

qVars == <<qit, qout, qreq, qlate>>
cnVars == <<m_cell_neighbors, cnThread, cnLast>>

dvVars == <<nlist, dvYields, qargs, dvPending, dvWorker, dvCalls,
           dvQueries, dvRun, dvPrev, dvLog>>

ccVars == <<ccPoint, ccResult, ccBase>>

\* the components beside the seven above
spVars == <<spA, spB>>

etsVars == <<etsPool, etsHeap, etsPc, etsOp, etsTouched>>

aux2Vars == <<etsVars, cursor>>

auxVars == <<ccVars, spVars, aux2Vars>>

vars == <<shellVars, wrapVars, lcVars, qVars, cnVars, dvVars, auxVars>>

\* bool -> int, as C++ converts `wrapped` in arithmetic
B2I(b) == IF b THEN 1 ELSE 0

Abs(n) == IF n < 0 THEN -n ELSE n

Max2(a, b) == IF a >= b THEN a ELSE b

(***************************************************************************)
(* Bounds                                                                  *)
(***************************************************************************)
\* largest range an IteratorCellShell is constructed with or walks through
MaxRange == 2
\* largest |coordinate| handed to getCellIndex
MaxCoord == 4
\* largest per-axis cell count of the grids getCellIndex is tried on
MaxCount == 3
\* side, in lattice units, of the boxes a cell list is built in
CLBox == 2
\* largest number of points a cell list is built from
CLMaxPoints == 3
\* sides, in lattice units, of the boxes that are queried
QBoxX == 4
QBoxY == 2
\* largest nominal cell width and largest r_max of a query, in lattice units
QMaxWidth == 2
QMaxR == 2
\* most next() calls made on a finished iterator
QMaxLate == 2
\* side of the box getCellCoord is called in
CoordBox == 3
\* k-NN queries: length of the box, largest num_neighbors
KnnBoxX == 9
KnnMaxK == 2
\* largest number of cells of the grids getCellNeighbors is called on
CacheMaxCells == 4
\* largest number of bonds of a NeighborList, and of query points
DrvMaxBonds == 2
DrvMaxNp == 2

(***************************************************************************)
(* IteratorCellShell                                                       *)
(***************************************************************************)
\* mutant: the wedges of a 3D shell start at z = -range
reset_zm(it, range) ==
    [it EXCEPT !.m_range = range,
               !.m_stage = IF range = 0 THEN 5 ELSE 0,
               !.m_current_x = -range,
               !.m_current_y = range,
               !.m_current_z = IF range = 0 THEN 0
                               ELSE IF it.m_is2D THEN 0 ELSE -range]

\* reset(range): the first offset of shell `range`
reset(it, range) ==
    [it EXCEPT !.m_range = range,
               !.m_stage = IF range = 0 THEN 5 ELSE 0,
               !.m_current_x = -range,
               !.m_current_y = range,
               !.m_current_z = IF range = 0 THEN 0
                               ELSE IF it.m_is2D THEN 0 ELSE -range + 1]

\* IteratorCellShell(range, is2D)
IteratorCellShell(range, is2D) ==
    reset([m_is2D |-> is2D, m_range |-> 0, m_stage |-> 0,
           m_current_x |-> 0, m_current_y |-> 0, m_current_z |-> 0], range)

\* mutant: the constructor on storage `mem`, leaving m_current_z as it was
IteratorCellShellOn_keepZ(mem, range, is2D) ==
    [reset([mem EXCEPT !.m_is2D = is2D], range) EXCEPT !.m_current_z = mem.m_current_z]

\* IteratorCellShell(range, is2D) constructed on storage that holds `mem`
IteratorCellShellOn(mem, range, is2D) ==
    reset([mem EXCEPT !.m_is2D = is2D], range)

\* the z carry shared by the four wedge stages:
\*   if (!m_is2D) { m_current_z += wrapped; wrapped = m_current_z >= m_range;
\*                  m_current_z += wrapped * (1 - 2 * m_range); }
\* gives <<m_current_z, wrapped>>
ZCarry(it, wrapped) ==
    IF it.m_is2D THEN <<it.m_current_z, wrapped>>
    ELSE LET z1 == it.m_current_z + B2I(wrapped)
             w2 == z1 >= it.m_range
         IN <<z1 + B2I(w2) * (1 - 2 * it.m_range), w2>>

\* mutant: the +y wedge is followed by the -y wedge
Stage0_skip(it) ==
    LET x1 == it.m_current_x + 1
        w1 == x1 >= it.m_range
        x2 == x1 - 2 * B2I(w1) * it.m_range
        zc == ZCarry(it, w1)
    IN IF zc[2]
       THEN [it EXCEPT !.m_current_z = zc[1], !.m_stage = @ + 2,
                       !.m_current_x = it.m_range]
       ELSE [it EXCEPT !.m_current_z = zc[1], !.m_current_x = x2]

\* case 0: +y wedge
Stage0(it) ==
    LET x1 == it.m_current_x + 1
        w1 == x1 >= it.m_range
        x2 == x1 - 2 * B2I(w1) * it.m_range
        zc == ZCarry(it, w1)
    IN IF zc[2]
       THEN [it EXCEPT !.m_current_z = zc[1], !.m_stage = @ + 1,
                       !.m_current_x = it.m_range]
       ELSE [it EXCEPT !.m_current_z = zc[1], !.m_current_x = x2]

\* mutant: y is stepped only when it wraps
Stage1_still(it) ==
    LET y1 == it.m_current_y - 1
        w1 == y1 <= -it.m_range
        zc == ZCarry(it, w1)
    IN IF zc[2]
       THEN [it EXCEPT !.m_current_z = zc[1], !.m_stage = @ + 1,
                       !.m_current_y = -it.m_range]
       ELSE [it EXCEPT !.m_current_z = zc[1]]

\* case 1: +x wedge
Stage1(it) ==
    LET y1 == it.m_current_y - 1
        w1 == y1 <= -it.m_range
        y2 == y1 + 2 * B2I(w1) * it.m_range
        zc == ZCarry(it, w1)
    IN IF zc[2]
       THEN [it EXCEPT !.m_current_z = zc[1], !.m_stage = @ + 1,
                       !.m_current_y = -it.m_range]
       ELSE [it EXCEPT !.m_current_z = zc[1], !.m_current_y = y2]

\* case 2: -y wedge
Stage2(it) ==
    LET x1 == it.m_current_x - 1
        w1 == x1 <= -it.m_range
        x2 == x1 + 2 * B2I(w1) * it.m_range
        zc == ZCarry(it, w1)
    IN IF zc[2]
       THEN [it EXCEPT !.m_current_z = zc[1], !.m_stage = @ + 1,
                       !.m_current_x = -it.m_range]
       ELSE [it EXCEPT !.m_current_z = zc[1], !.m_current_x = x2]

\* case 3: -x wedge; the last stage of a 2D shell
Stage3(it) ==
    LET y1 == it.m_current_y + 1
        w1 == y1 >= it.m_range
        y2 == y1 - 2 * B2I(w1) * it.m_range
        zc == ZCarry(it, w1)
    IN IF zc[2]
       THEN IF it.m_is2D
            THEN reset(it, it.m_range + 1)
            ELSE [it EXCEPT !.m_stage = @ + 1,
                            !.m_current_x = -it.m_range,
                            !.m_current_y = -it.m_range,
                            !.m_current_z = -it.m_range]
       ELSE [it EXCEPT !.m_current_z = zc[1], !.m_current_y = y2]

\* mutant: after the last face the same shell is begun again
StageCap_sameRange(it) ==
    LET x1 == it.m_current_x + 1
        w1 == x1 > it.m_range
        x2 == x1 - B2I(w1) * (2 * it.m_range + 1)
        y1 == it.m_current_y + B2I(w1)
        w2 == y1 > it.m_range
        y2 == y1 - B2I(w2) * (2 * it.m_range + 1)
        moved == [it EXCEPT !.m_current_x = x2, !.m_current_y = y2]
    IN IF w2
       THEN LET staged == [moved EXCEPT !.m_stage = @ + 1,
                                        !.m_current_z = it.m_range]
            IN IF staged.m_stage > 5 THEN reset(staged, it.m_range)
               ELSE staged
       ELSE moved

\* case 4, case 5, default: the -z and +z faces
StageCap(it) ==
    LET x1 == it.m_current_x + 1
        w1 == x1 > it.m_range
        x2 == x1 - B2I(w1) * (2 * it.m_range + 1)
        y1 == it.m_current_y + B2I(w1)
        w2 == y1 > it.m_range
        y2 == y1 - B2I(w2) * (2 * it.m_range + 1)
        moved == [it EXCEPT !.m_current_x = x2, !.m_current_y = y2]
    IN IF w2
       THEN LET staged == [moved EXCEPT !.m_stage = @ + 1,
                                        !.m_current_z = it.m_range]
            IN IF staged.m_stage > 5 THEN reset(staged, it.m_range + 1)
               ELSE staged
       ELSE moved

\* operator++
OperatorInc(it) ==
    CASE it.m_stage = 0 -> Stage0(it)
      [] it.m_stage = 1 -> Stage1(it)
      [] it.m_stage = 2 -> Stage2(it)
      [] it.m_stage = 3 -> Stage3(it)
      [] OTHER -> StageCap(it)

\* operator*
OperatorDeref(it) == <<it.m_current_x, it.m_current_y, it.m_current_z>>

\* operator==
OperatorEq(a, b) ==
    /\ a.m_range = b.m_range
    /\ a.m_current_x = b.m_current_x
    /\ a.m_current_y = b.m_current_y
    /\ a.m_current_z = b.m_current_z
    /\ a.m_stage = b.m_stage
    /\ a.m_is2D = b.m_is2D

\* getRange()
getRange(it) == it.m_range

(***************************************************************************)
(* LinkCell::getCellIndex                                                  *)
(***************************************************************************)
\* C++ `a % b` on int, b > 0: the remainder of the division truncated to zero
CRem(a, b) == IF a >= 0 THEN a % b ELSE -((-a) % b)

\* Index3D::operator()(x, y, z) on a w x h x d indexer: row-major
Index3D(dims, x, y, z) == (x * dims[2] + y) * dims[3] + z

\* Index3D::getNumElements()
getNumElements(dims) == dims[1] * dims[2] * dims[3]

\* mutants: the truncated remainder alone; one conditional add and no remainder
WrapAxis_trunc(c, n) == CRem(c, n)

WrapAxis_noRem(c, n) == c + (IF c < 0 THEN n ELSE 0)

\* mutant: a coordinate outside the grid is moved to the nearest cell
WrapAxis_clamp(c, n) == IF c < 0 THEN 0 ELSE IF c >= n THEN n - 1 ELSE c

\* int x = cellCoord.x % w;  x += (x < 0 ? w : 0);
WrapAxis(c, n) ==
    LET x == CRem(c, n)
    IN x + (IF x < 0 THEN n ELSE 0)

getCellIndex(dims, cellCoord) ==
    Index3D(dims, WrapAxis(cellCoord[1], dims[1]),
                  WrapAxis(cellCoord[2], dims[2]),
                  WrapAxis(cellCoord[3], dims[3]))

(***************************************************************************)
(* The box (Box.h) and the cell grid                                       *)
(*                                                                         *)
(* A box is [L |-> <<Lx, Ly, Lz>>, periodic, is2D]; a position is a        *)
(* lattice point <<x, y, z>> measured from the box's lower corner, inside  *)
(* the box when 0 <= x < Lx and so on, so that Box::makeFraction gives the *)
(* fraction x / Lx.                                                        *)
(***************************************************************************)
Positions(box) ==
    (0..(box.L[1] - 1)) \X (0..(box.L[2] - 1)) \X (0..(box.L[3] - 1))

\* computeDimensions(box, cell_width): floor(L / cell_width) cells on each
\* axis, at least 1; one cell in z for a 2D box
computeDimensions(box, cell_width) ==
    <<Max2(1, box.L[1] \div cell_width),
      Max2(1, box.L[2] \div cell_width),
      IF box.is2D THEN 1 ELSE Max2(1, box.L[3] \div cell_width)>>

\* mutant: the cell count taken for the box length
getCellCoordAxis_len(p, len, n) == ((p * len) \div len) % n

\* c.x = (unsigned int) floorf(alpha.x * float(getW()));  c.x %= getW();
\* with alpha.x = p / len, for a position p inside the box (0 <= p < len)
getCellCoordAxis(p, len, n) == ((p * n) \div len) % n

getCellCoord(box, dims, p) ==
    <<getCellCoordAxis(p[1], box.L[1], dims[1]),
      getCellCoordAxis(p[2], box.L[2], dims[2]),
      getCellCoordAxis(p[3], box.L[3], dims[3])>>

getCell(box, dims, p) ==
    LET c == getCellCoord(box, dims, p)
    IN Index3D(dims, c[1], c[2], c[3])

\* 2^32 modulo n, computed within the checker's integers
Pow32Mod(n) == ((65536 % n) * (65536 % n)) % n

\* Box::makeFraction on one axis, as the numerator over the box length: a
\* periodic box takes the point into the box first
makeFraction(box, axis, p) ==
    IF box.periodic THEN p % box.L[axis] ELSE p

\* c = (unsigned int) f; c %= n; for the float f = floorf(alpha * n).  The
\* conversion of a negative float is undefined: the outcomes are the value
\* modulo 2^32 and the saturated value 0
FloorToUIntRem(f, n) ==
    IF f >= 0 THEN {f % n} ELSE {(Pow32Mod(n) + (f % n)) % n, 0}

\* the values getCellCoord can give c.x (c.y, c.z) for any position
getCellCoordAxisAll(box, axis, n, p) ==
    FloorToUIntRem((makeFraction(box, axis, p) * n) \div box.L[axis], n)

\* the coordinates getCellCoord(p) can return for any position p
getCellCoordAll(box, dims, p) ==
    getCellCoordAxisAll(box, 1, dims[1], p[1])
        \X getCellCoordAxisAll(box, 2, dims[2], p[2])
        \X getCellCoordAxisAll(box, 3, dims[3], p[3])

(***************************************************************************)
(* The cell list and IteratorLinkCell                                      *)
(***************************************************************************)
\* 0xffffffff in the source, the largest unsigned int; here the largest
\* integer the checker holds: like the source's it exceeds every slot index
LINK_CELL_TERMINATOR == 2147483647

\* the insertions of computeCellList, from point p on:
\*   link[p] = head[c];  head[c] = p
RECURSIVE InsertFrom(_, _, _, _, _)
InsertFrom(list, box, dims, points, p) ==
    IF p >= Len(points) THEN list
    ELSE LET head == Len(points) + getCell(box, dims, points[p + 1])
         IN InsertFrom([list EXCEPT ![p] = list[head], ![head] = p],
                       box, dims, points, p + 1)

\* computeCellList(points, n_points): every slot reset, then every point
\* inserted in input order
computeCellList(box, dims, points) ==
    InsertFrom([i \in 0..(Len(points) + getNumElements(dims) - 1)
                   |-> LINK_CELL_TERMINATOR],
               box, dims, points, 0)

\* mutant: the cursor starts at slot `cell`
IteratorLinkCell_noNp(Np, Nc, cell) ==
    [m_Np |-> Np, m_Nc |-> Nc, m_cell |-> cell, m_cur_idx |-> cell]

\* IteratorLinkCell(cell_list, Np, Nc, cell)
IteratorLinkCell(Np, Nc, cell) ==
    [m_Np |-> Np, m_Nc |-> Nc, m_cell |-> cell, m_cur_idx |-> Np + cell]

\* mutant: the end is taken to be index 0
atEnd_zero(it) == it.m_cur_idx = 0

\* atEnd()
atEnd(it) == it.m_cur_idx = LINK_CELL_TERMINATOR

\* next(): the cursor after the call; the call returns its m_cur_idx
next(list, it) == [it EXCEPT !.m_cur_idx = list[it.m_cur_idx]]

\* begin()
begin(list, it) == [it EXCEPT !.m_cur_idx = list[it.m_Np + it.m_cell]]

\* for (i = it.next(); !it.atEnd(); i = it.next()) acc.push_back(i), `it`
\* having made its first next(): the indices visited, and whether the loop
\* ended at the terminator (within `fuel` steps and without leaving the array)
RECURSIVE Drain(_, _, _, _)
Drain(list, it, acc, fuel) ==
    IF atEnd(it) THEN [items |-> acc, ended |-> TRUE]
    ELSE IF fuel = 0 \/ it.m_cur_idx \notin DOMAIN list
         THEN [items |-> Append(acc, it.m_cur_idx), ended |-> FALSE]
         ELSE Drain(list, next(list, it), Append(acc, it.m_cur_idx), fuel - 1)

\* the documented loop over LinkCell::itercell(cell)
CellChain(list, Np, Nc, cell) ==
    Drain(list, next(list, IteratorLinkCell(Np, Nc, cell)), <<>>, Np + Nc)

(***************************************************************************)
(* The query iterators                                                     *)
(***************************************************************************)
\* |a - b| on one axis, through the nearer periodic image in a periodic box
\* (Box::wrap of the difference)
AxisDelta(a, b, len, periodic) ==
    LET d == Abs(a - b)
    IN IF periodic /\ 2 * d > len THEN len - d ELSE d

\* dot(rij, rij) for rij = box.wrap(a - b)
DistSq(box, a, b) ==
    LET dx == AxisDelta(a[1], b[1], box.L[1], box.periodic)
        dy == AxisDelta(a[2], b[2], box.L[2], box.periodic)
        dz == IF box.is2D THEN 0
              ELSE AxisDelta(a[3], b[3], box.L[3], box.periodic)
    IN dx * dx + dy * dy + dz * dz

\* LinkCell::itercell(cell) on a LinkCell lc = [box, dims, width, points, list]
itercell(lc, cell) ==
    IteratorLinkCell(Len(lc.points), getNumElements(lc.dims), cell)

\* mutant: the cursor starts on cell 0
LinkCellIterator_cell0(lc, query_point, query_point_idx, exclude_ii) ==
    [m_query_point |-> query_point,
     m_query_point_idx |-> query_point_idx,
     m_exclude_ii |-> exclude_ii,
     m_finished |-> FALSE,
     m_neigh_cell_iter |-> IteratorCellShell(0, lc.box.is2D),
     m_cell_iter |-> itercell(lc, 0),
     m_searched_cells |-> {},
     scanned |-> <<0>>]

\* LinkCellIterator(neighbor_query, query_point, query_point_idx, exclude_ii):
\* shell 0, the cursor on the query point's cell.  scanned is history: the
\* cells m_cell_iter has been set on, in order
LinkCellIterator(lc, query_point, query_point_idx, exclude_ii) ==
    [m_query_point |-> query_point,
     m_query_point_idx |-> query_point_idx,
     m_exclude_ii |-> exclude_ii,
     m_finished |-> FALSE,
     m_neigh_cell_iter |-> IteratorCellShell(0, lc.box.is2D),
     m_cell_iter |-> itercell(lc, getCell(lc.box, lc.dims, query_point)),
     m_searched_cells |-> {},
     scanned |-> <<getCell(lc.box, lc.dims, query_point)>>]

\* mutants: no extra shell whatever r_max; an extra shell whatever r_max
ExtraSearchWidth_0(r_max, cell_width) == 0

ExtraSearchWidth_1(r_max, cell_width) == 1

\* mutant: the two branches of the test exchanged
ExtraSearchWidth_inverted(r_max, cell_width) == IF r_max = cell_width THEN 1 ELSE 0

\* the body of LinkCellQueryBallIterator's constructor
ExtraSearchWidth(r_max, cell_width) == IF r_max = cell_width THEN 0 ELSE 1

\* LinkCellQueryBallIterator(neighbor_query, query_point, query_point_idx,
\*                           r_max, exclude_ii)
LinkCellQueryBallIterator(lc, query_point, query_point_idx, r_max, exclude_ii) ==
    [f \in {"m_r_max", "m_extra_search_width"}
        |-> IF f = "m_r_max" THEN r_max ELSE ExtraSearchWidth(r_max, lc.width)]
    @@ LinkCellIterator(lc, query_point, query_point_idx, exclude_ii)

\* the cell the shell cursor stands on, seen from the query point's cell
CurrentCell(lc, it) ==
    LET c == getCellCoord(lc.box, lc.dims, it.m_query_point)
        o == OperatorDeref(it.m_neigh_cell_iter)
    IN getCellIndex(lc.dims, <<c[1] + o[1], c[2] + o[2], c[3] + o[3]>>)

\* a bond as next() returns it; distances are kept as their squares
NeighborBond(id, ref_id, distsq) == [id |-> id, ref_id |-> ref_id, distsq |-> distsq]

\* one pass of next()'s inner loop moves the shell cursor on one offset ...
ShellStep(it) == [it EXCEPT !.m_neigh_cell_iter = OperatorInc(@)]

\* ... and the loop is left when the cursor has reached a shell out of
\* range, or stands on a cell that has not been searched
BallOutOfRange(lc, it) ==
    (getRange(it.m_neigh_cell_iter) - it.m_extra_search_width) * lc.width
        > it.m_r_max

BallLoopExit(lc, it) ==
    BallOutOfRange(lc, it) \/ CurrentCell(lc, it) \notin it.m_searched_cells

\* the iterator after the passes of the inner loop, which are at most n
\* (evaluated by halving n, to keep the evaluation shallow)
RECURSIVE BallSkip(_, _, _)
BallSkip(lc, it, n) ==
    IF n <= 1 THEN ShellStep(it)
    ELSE LET a == BallSkip(lc, it, n \div 2)
         IN IF BallLoopExit(lc, a) THEN a ELSE BallSkip(lc, a, n - n \div 2)

\* no more passes than there are offsets up to the first shell out of range
BallMaxPasses(lc, it) ==
    LET n == 2 * ((it.m_r_max \div lc.width) + 2) + 1
    IN n * n * n

\* LinkCellQueryBallIterator::next(), from the point where the current cell
\* is drained (BallDrain) and from the point where the shell cursor moves on
\* (BallAdvance): [it, found, bond]
RECURSIVE BallDrain(_, _), BallAdvance(_, _)
BallDrain(lc, it) ==
    LET ci == next(lc.list, it.m_cell_iter)
        it1 == [it EXCEPT !.m_cell_iter = ci]
        j == ci.m_cur_idx
        rsq == DistSq(lc.box, lc.points[j + 1], it.m_query_point)
    IN IF atEnd(ci) THEN BallAdvance(lc, it1)
       ELSE IF it.m_exclude_ii /\ it.m_query_point_idx = j THEN BallDrain(lc, it1)
       ELSE IF rsq <= it.m_r_max * it.m_r_max
            THEN [it |-> it1, found |-> TRUE,
                  bond |-> NeighborBond(it.m_query_point_idx, j, rsq)]
            ELSE BallDrain(lc, it1)

BallAdvance(lc, it) ==
    LET it1 == BallSkip(lc, it, BallMaxPasses(lc, it))
        cell == CurrentCell(lc, it1)
    IN IF BallOutOfRange(lc, it1)
       THEN [it |-> [it1 EXCEPT !.m_finished = TRUE], found |-> FALSE,
             bond |-> NeighborBond(0, 0, 0)]
       ELSE BallDrain(lc, [it1 EXCEPT !.m_searched_cells = @ \cup {cell},
                                      !.m_cell_iter = itercell(lc, cell),
                                      !.scanned = Append(@, cell)])

\* a finished iterator returns the terminator and stays as it is
BallNextCall(lc, it) ==
    IF it.m_finished
    THEN [it |-> it, found |-> FALSE, bond |-> NeighborBond(0, 0, 0)]
    ELSE BallDrain(lc, [it EXCEPT !.m_searched_cells =
                                      @ \cup {CurrentCell(lc, it)}])

\* mutant: r_max and num_neighbors initialise each other's member
LinkCellQueryIterator_swapped(lc, query_point, idx, num_neighbors, r_max, exclude_ii) ==
    [f \in {"m_count", "m_r_max", "m_num_neighbors", "m_current_neighbors"}
        |-> CASE f = "m_count" -> 0
              [] f = "m_r_max" -> num_neighbors
              [] f = "m_num_neighbors" -> r_max
              [] OTHER -> <<>>]
    @@ LinkCellIterator(lc, query_point, idx, exclude_ii)

\* mutant: the count of returned neighbors starts at 1
LinkCellQueryIterator_count1(lc, query_point, idx, num_neighbors, r_max, exclude_ii) ==
    [f \in {"m_count", "m_r_max", "m_num_neighbors", "m_current_neighbors"}
        |-> CASE f = "m_count" -> 1
              [] f = "m_r_max" -> r_max
              [] f = "m_num_neighbors" -> num_neighbors
              [] OTHER -> <<>>]
    @@ LinkCellIterator(lc, query_point, idx, exclude_ii)

\* LinkCellQueryIterator(neighbor_query, query_point, query_point_idx,
\*                       num_neighbors, r_max, exclude_ii)
LinkCellQueryIterator(lc, query_point, idx, num_neighbors, r_max, exclude_ii) ==
    [f \in {"m_count", "m_r_max", "m_num_neighbors", "m_current_neighbors"}
        |-> CASE f = "m_count" -> 0
              [] f = "m_r_max" -> r_max
              [] f = "m_num_neighbors" -> num_neighbors
              [] OTHER -> <<>>]
    @@ LinkCellIterator(lc, query_point, idx, exclude_ii)

\* the candidate buffer with `bond` put in: ascending distance, a new bond
\* behind those that are as far, and no more than k bonds kept
RECURSIVE InsertSorted(_, _)
InsertSorted(buf, bond) ==
    IF buf = <<>> \/ bond.distsq < Head(buf).distsq THEN <<bond>> \o buf
    ELSE <<Head(buf)>> \o InsertSorted(Tail(buf), bond)

KnnInsert(buf, bond, k) ==
    LET b == InsertSorted(buf, bond)
    IN IF Len(b) > k THEN SubSeq(b, 1, k) ELSE b

\* mutant: the cursor's shell is taken to begin a whole cell further out
ShellMinDistance_far(lc, it) == getRange(it.m_neigh_cell_iter) * lc.width

\* the least distance a point of the cursor's shell can have to the query
\* point, which lies anywhere in its own cell
ShellMinDistance(lc, it) == (getRange(it.m_neigh_cell_iter) - 1) * lc.width

\* the hard cutoff: the cursor's shell lies beyond r_max
KnnOutOfRange(lc, it) == ShellMinDistance(lc, it) > it.m_r_max

\* num_neighbors candidates are accepted and the cursor's shell cannot hold
\* a point closer than the worst of them
KnnEnough(lc, it) ==
    /\ Len(it.m_current_neighbors) >= it.m_num_neighbors
    /\ ShellMinDistance(lc, it) >= 0
    /\ ShellMinDistance(lc, it) * ShellMinDistance(lc, it)
          >= it.m_current_neighbors[it.m_num_neighbors].distsq

KnnStop(lc, it) == KnnOutOfRange(lc, it) \/ KnnEnough(lc, it)

KnnLoopExit(lc, it) ==
    KnnStop(lc, it) \/ CurrentCell(lc, it) \notin it.m_searched_cells

\* the iterator after the passes of the loop over offsets, which are at most n
RECURSIVE KnnSkip(_, _, _)
KnnSkip(lc, it, n) ==
    IF n <= 1 THEN ShellStep(it)
    ELSE LET a == KnnSkip(lc, it, n \div 2)
         IN IF KnnLoopExit(lc, a) THEN a ELSE KnnSkip(lc, a, n - n \div 2)

\* the search of LinkCellQueryIterator::next(), from the point where the
\* current cell is drained (KnnDrain) and from the point where the shell
\* cursor moves on (KnnAdvance): the iterator when the search has stopped
RECURSIVE KnnDrain(_, _), KnnAdvance(_, _)
KnnDrain(lc, it) ==
    LET ci == next(lc.list, it.m_cell_iter)
        it1 == [it EXCEPT !.m_cell_iter = ci]
        j == ci.m_cur_idx
        rsq == DistSq(lc.box, lc.points[j + 1], it.m_query_point)
    IN IF atEnd(ci) THEN KnnAdvance(lc, it1)
       ELSE IF it.m_exclude_ii /\ it.m_query_point_idx = j THEN KnnDrain(lc, it1)
       ELSE IF rsq <= it.m_r_max * it.m_r_max
            THEN KnnDrain(lc, [it1 EXCEPT !.m_current_neighbors =
                     KnnInsert(@, NeighborBond(it.m_query_point_idx, j, rsq),
                               it.m_num_neighbors)])
            ELSE KnnDrain(lc, it1)

KnnAdvance(lc, it) ==
    LET it1 == KnnSkip(lc, it, BallMaxPasses(lc, it))
        cell == CurrentCell(lc, it1)
    IN IF KnnStop(lc, it1) THEN it1
       ELSE KnnDrain(lc, [it1 EXCEPT !.m_searched_cells = @ \cup {cell},
                                     !.m_cell_iter = itercell(lc, cell),
                                     !.scanned = Append(@, cell)])

KnnSearch(lc, it) ==
    KnnDrain(lc, [it EXCEPT !.m_searched_cells = @ \cup {CurrentCell(lc, it)}])

\* LinkCellQueryIterator::next(): the first call searches, and every call
\* returns the next bond of the buffer, or ends the iteration:
\* [it, found, bond]
KnnNextCall(lc, it) ==
    LET s == IF it.m_searched_cells = {} THEN KnnSearch(lc, it) ELSE it
    IN IF s.m_count < s.m_num_neighbors /\ s.m_count < Len(s.m_current_neighbors)
       THEN [it |-> [s EXCEPT !.m_count = @ + 1], found |-> TRUE,
             bond |-> s.m_current_neighbors[s.m_count + 1]]
       ELSE [it |-> [s EXCEPT !.m_finished = TRUE], found |-> FALSE,
             bond |-> NeighborBond(0, 0, 0)]

(***************************************************************************)
(* The cell neighbor cache                                                 *)
(***************************************************************************)
\* the documented loop runs until the enumerator equals IteratorCellShell(2)
NeighborShellEnd == 2

\* Index3D::operator()(cell): the coordinates of a cell id
CellCoordOf(dims, cell) ==
    <<cell \div (dims[2] * dims[3]), (cell \div dims[3]) % dims[2], cell % dims[3]>>

\* the elements of a set of integers in ascending order
RECURSIVE SortedSeq(_)
SortedSeq(S) ==
    IF S = {} THEN <<>>
    ELSE LET m == CHOOSE x \in S : \A y \in S : x <= y
         IN <<m>> \o SortedSeq(S \ {m})

\* for (iter(0); iter != IteratorCellShell(end); ++iter)
\*     acc.insert(getCellIndex(c + *iter))
RECURSIVE CollectNeighbors(_, _, _, _, _)
CollectNeighbors(dims, c, iter, end, acc) ==
    IF OperatorEq(iter, end) THEN acc
    ELSE LET o == OperatorDeref(iter)
         IN CollectNeighbors(dims, c, OperatorInc(iter), end,
                acc \cup {getCellIndex(dims, <<c[1] + o[1], c[2] + o[2], c[3] + o[3]>>)})

\* computeCellNeighbors(cell): the list that is stored and returned
computeCellNeighbors(dims, is2D, cell) ==
    SortedSeq(CollectNeighbors(dims, CellCoordOf(dims, cell),
                               IteratorCellShell(0, is2D),
                               IteratorCellShell(NeighborShellEnd, is2D), {}))

\* mutant: the entry of cell 0 is looked up
CacheFind_key0(map, cell) ==
    IF 0 \in DOMAIN map THEN <<map[0]>> ELSE <<>>

\* m_cell_neighbors.find(a, cell): <<a->second>> on a hit, <<>> on a miss
CacheFind(map, cell) ==
    IF cell \in DOMAIN map THEN <<map[cell]>> ELSE <<>>

\* m_cell_neighbors with the entry of `cell` set to `list`
CacheInsert(map, cell, list) ==
    [c \in DOMAIN map \cup {cell} |-> IF c = cell THEN list ELSE map[c]]

(***************************************************************************)
(* Idle values of the components a specification leaves alone              *)
(***************************************************************************)
ShellIdle ==
    /\ shell = IteratorCellShell(0, FALSE)
    /\ shellOut = <<>>
    /\ shellDone = [range |-> -1, offsets |-> <<>>]
    /\ shellStart = 0
    /\ shellAll = <<>>

WrapIdle ==
    /\ wrapDims = <<1, 1, 1>>
    /\ wrapCoord = <<0, 0, 0>>
    /\ wrapResult = <<>>
    /\ wrapBase = <<>>

LcIdle ==
    /\ m_box = [L |-> <<1, 1, 1>>, periodic |-> FALSE, is2D |-> TRUE]
    /\ m_cell_width = 1
    /\ m_cell_index = <<1, 1, 1>>
    /\ m_points = <<>>
    /\ m_n_points = 0
    /\ m_cell_list = <<>>
    /\ lcBuilds = 0

QIdle ==
    /\ qit = [m_finished |-> TRUE]
    /\ qout = <<>>
    /\ qreq = <<>>
    /\ qlate = 0

DvIdle ==
    /\ nlist = <<>>
    /\ dvYields = <<>>
    /\ qargs = <<>>
    /\ dvPending = {}
    /\ dvWorker = <<>>
    /\ dvCalls = <<>>
    /\ dvQueries = <<>>
    /\ dvRun = 0
    /\ dvPrev = <<>>
    /\ dvLog = <<>>

CnIdle ==
    /\ m_cell_neighbors = <<>>
    /\ cnThread = <<>>
    /\ cnLast = <<>>

CcIdle ==
    /\ ccPoint = <<0, 0, 0>>
    /\ ccResult = <<>>
    /\ ccBase = <<>>

SpIdle ==
    /\ spA = <<>>
    /\ spB = <<>>

EtsIdle ==
    /\ etsPool = <<>>
    /\ etsHeap = <<>>
    /\ etsPc = <<>>
    /\ etsOp = <<>>
    /\ etsTouched = {}

CurIdle == cursor = <<>>

Aux2Idle == EtsIdle /\ CurIdle

AuxIdle == CcIdle /\ SpIdle /\ Aux2Idle

(***************************************************************************)
(* SpecShell: an IteratorCellShell is constructed at some range and        *)
(* advanced, shell after shell.                                            *)
(***************************************************************************)
InitShell ==
    /\ \E range \in 0..MaxRange, is2D \in BOOLEAN :
          /\ shell = IteratorCellShell(range, is2D)
          /\ shellOut = <<OperatorDeref(IteratorCellShell(range, is2D))>>
          /\ shellAll = <<OperatorDeref(IteratorCellShell(range, is2D))>>
          /\ shellStart = range
    /\ shellDone = [range |-> -1, offsets |-> <<>>]
    /\ WrapIdle
    /\ LcIdle
    /\ QIdle
    /\ CnIdle
    /\ DvIdle
    /\ AuxIdle

\* ++iter, then *iter
ShellAdvance ==
    /\ getRange(shell) <= MaxRange
    /\ LET nxt == OperatorInc(shell)
       IN /\ shell' = nxt
          /\ shellAll' = Append(shellAll, OperatorDeref(nxt))
          /\ UNCHANGED shellStart
          /\ IF getRange(nxt) = getRange(shell)
             THEN /\ shellOut' = Append(shellOut, OperatorDeref(nxt))
                  /\ UNCHANGED shellDone
             ELSE /\ shellOut' = <<OperatorDeref(nxt)>>
                  /\ shellDone' = [range |-> getRange(shell), offsets |-> shellOut]
    /\ UNCHANGED <<wrapVars, lcVars, qVars, cnVars, dvVars, auxVars>>

NextShell == ShellAdvance

SpecShell == InitShell /\ [][NextShell]_vars

(***************************************************************************)
(* SpecShellPair: two IteratorCellShell are constructed with the same      *)
(* range and is2D, on storage of any content, and each is advanced on its  *)
(* own.                                                                    *)
(***************************************************************************)
\* what the storage of an enumerator may hold before its construction
ShellStorage ==
    {[m_is2D |-> b, m_range |-> g, m_stage |-> g, m_current_x |-> g,
      m_current_y |-> g, m_current_z |-> g] : b \in BOOLEAN, g \in {-1, 0, 4}}

InitShellPair ==
    /\ \E range \in 0..MaxRange, is2D \in BOOLEAN, ma \in ShellStorage,
          mb \in ShellStorage :
          /\ spA = [it |-> IteratorCellShellOn(ma, range, is2D), n |-> 0]
          /\ spB = [it |-> IteratorCellShellOn(mb, range, is2D), n |-> 0]
    /\ ShellIdle
    /\ WrapIdle
    /\ LcIdle
    /\ QIdle
    /\ CnIdle
    /\ DvIdle
    /\ CcIdle
    /\ Aux2Idle

\* ++a
PairAdvanceA ==
    /\ getRange(spA.it) <= MaxRange
    /\ spA' = [it |-> OperatorInc(spA.it), n |-> spA.n + 1]
    /\ UNCHANGED spB
    /\ UNCHANGED <<shellVars, wrapVars, lcVars, qVars, cnVars, dvVars, ccVars, aux2Vars>>

\* ++b
PairAdvanceB ==
    /\ getRange(spB.it) <= MaxRange
    /\ spB' = [it |-> OperatorInc(spB.it), n |-> spB.n + 1]
    /\ UNCHANGED spA
    /\ UNCHANGED <<shellVars, wrapVars, lcVars, qVars, cnVars, dvVars, ccVars, aux2Vars>>

NextShellPair == PairAdvanceA \/ PairAdvanceB

SpecShellPair == InitShellPair /\ [][NextShellPair]_vars

(***************************************************************************)
(* SpecWrap: getCellIndex is called on a coordinate, then on coordinates   *)
(* shifted by whole multiples of the cell counts.                          *)
(***************************************************************************)
Coords == (-MaxCoord..MaxCoord) \X (-MaxCoord..MaxCoord) \X (-MaxCoord..MaxCoord)

InitWrap ==
    /\ wrapDims \in (1..MaxCount) \X (1..MaxCount) \X (1..MaxCount)
    /\ wrapCoord \in Coords
    /\ wrapResult = <<>>
    /\ wrapBase = <<>>
    /\ ShellIdle
    /\ LcIdle
    /\ QIdle
    /\ CnIdle
    /\ DvIdle
    /\ AuxIdle

\* the first call, on the coordinate chosen at the start
WrapCall ==
    /\ wrapResult = <<>>
    /\ wrapResult' = <<getCellIndex(wrapDims, wrapCoord)>>
    /\ wrapBase' = <<getCellIndex(wrapDims, wrapCoord)>>
    /\ UNCHANGED <<wrapDims, wrapCoord>>
    /\ UNCHANGED <<shellVars, lcVars, qVars, cnVars, dvVars, auxVars>>

\* a further call, on the last coordinate moved by k * count on each axis
WrapCallShifted ==
    /\ wrapResult # <<>>
    /\ \E kx \in -1..1, ky \in -1..1, kz \in -1..1 :
          LET c == <<wrapCoord[1] + kx * wrapDims[1],
                     wrapCoord[2] + ky * wrapDims[2],
                     wrapCoord[3] + kz * wrapDims[3]>>
          IN /\ c \in Coords
             /\ wrapCoord' = c
             /\ wrapResult' = <<getCellIndex(wrapDims, c)>>
    /\ UNCHANGED <<wrapDims, wrapBase>>
    /\ UNCHANGED <<shellVars, lcVars, qVars, cnVars, dvVars, auxVars>>

NextWrap == WrapCall \/ WrapCallShifted

SpecWrap == InitWrap /\ [][NextWrap]_vars

(***************************************************************************)
(* SpecCoord: getCellCoord is called on a position inside or outside the   *)
(* box, then on the position moved by whole box lengths.                   *)
(***************************************************************************)
\* the positions: up to a box length outside the box on either side
CoordAxis(len) == (-len)..(2 * len - 1)

InitCoord ==
    /\ \E per \in BOOLEAN, is2D \in BOOLEAN :
          m_box = [L |-> <<CoordBox, CoordBox, CoordBox>>, periodic |-> per,
                   is2D |-> is2D]
    /\ m_cell_width \in 1..CoordBox
    /\ m_cell_index = computeDimensions(m_box, m_cell_width)
    /\ m_points = <<>>
    /\ m_n_points = 0
    /\ m_cell_list = <<>>
    /\ lcBuilds = 0
    /\ ccPoint \in CoordAxis(CoordBox) \X {0}
                     \X (IF m_box.is2D THEN {0} ELSE CoordAxis(CoordBox))
    /\ ccResult = <<>>
    /\ ccBase = <<>>
    /\ ShellIdle
    /\ WrapIdle
    /\ QIdle
    /\ CnIdle
    /\ DvIdle
    /\ SpIdle
    /\ Aux2Idle

\* the first call, on the position chosen at the start
CoordCall ==
    /\ ccResult = <<>>
    /\ \E c \in getCellCoordAll(m_box, m_cell_index, ccPoint) :
          /\ ccResult' = <<c>>
          /\ ccBase' = <<c>>
    /\ UNCHANGED ccPoint
    /\ UNCHANGED <<shellVars, wrapVars, lcVars, qVars, cnVars, dvVars, spVars, aux2Vars>>

\* a further call, on the position moved by k box lengths on each axis
CoordCallShifted ==
    /\ ccResult # <<>>
    /\ \E kx \in -1..1, kz \in -1..1 :
          LET p == <<ccPoint[1] + kx * m_box.L[1], ccPoint[2],
                     ccPoint[3] + kz * m_box.L[3]>>
          IN /\ p[1] \in CoordAxis(CoordBox)
             /\ p[3] \in (IF m_box.is2D THEN {0} ELSE CoordAxis(CoordBox))
             /\ ccPoint' = p
             /\ \E c \in getCellCoordAll(m_box, m_cell_index, p) :
                   ccResult' = <<c>>
    /\ UNCHANGED ccBase
    /\ UNCHANGED <<shellVars, wrapVars, lcVars, qVars, cnVars, dvVars, spVars, aux2Vars>>

NextCoord == CoordCall \/ CoordCallShifted

SpecCoord == InitCoord /\ [][NextCoord]_vars

(***************************************************************************)
(* SpecCellList: a LinkCell is constructed over a box and computeCellList  *)
(* indexes a point set, then again a point set that differs from the       *)
(* indexed one in one point (one removed, one added or one moved).         *)
(***************************************************************************)
\* the square 2D boxes and the 3D slabs (one lattice unit thick in y) of
\* side CLBox
CLBoxes ==
    {[L |-> <<CLBox, CLBox, 1>>, periodic |-> FALSE, is2D |-> TRUE],
     [L |-> <<CLBox, 1, CLBox>>, periodic |-> FALSE, is2D |-> FALSE]}

SeqsUpTo(S, n) == UNION {[1..k -> S] : k \in 1..n}

RemoveAt(s, i) == SubSeq(s, 1, i - 1) \o SubSeq(s, i + 1, Len(s))

NewPointSets(box, old) ==
    IF old = <<>> THEN SeqsUpTo(Positions(box), CLMaxPoints)
    ELSE {RemoveAt(old, i) : i \in (IF Len(old) > 1 THEN 1..Len(old) ELSE {})}
         \cup {Append(old, p) : p \in (IF Len(old) < CLMaxPoints
                                        THEN Positions(box) ELSE {})}
         \cup {[old EXCEPT ![i] = p] : i \in 1..Len(old), p \in Positions(box)}

InitCellList ==
    /\ m_box \in CLBoxes
    /\ m_cell_width \in 1..CLBox
    /\ m_cell_index = computeDimensions(m_box, m_cell_width)
    /\ m_points = <<>>
    /\ m_n_points = 0
    /\ m_cell_list = <<>>
    /\ lcBuilds = 0
    /\ ShellIdle
    /\ WrapIdle
    /\ QIdle
    /\ CnIdle
    /\ DvIdle
    /\ AuxIdle

ComputeCellList ==
    /\ \E points \in NewPointSets(m_box, m_points) :
          /\ m_points' = points
          /\ m_n_points' = Len(points)
          /\ m_cell_list' = computeCellList(m_box, m_cell_index, points)
    /\ lcBuilds' = IF lcBuilds = 0 THEN 1 ELSE 2
    /\ UNCHANGED <<m_box, m_cell_width, m_cell_index>>
    /\ UNCHANGED <<shellVars, wrapVars, qVars, cnVars, dvVars, auxVars>>

NextCellList == ComputeCellList

SpecCellList == InitCellList /\ [][NextCellList]_vars

(***************************************************************************)
(* SpecBall: a LinkCell is constructed over a box and a point set, a ball  *)
(* query is made for one of the points, and its iterator is drained by     *)
(* next() calls.                                                           *)
(***************************************************************************)
\* the queried boxes: QBoxX x QBoxY, 2D, and the same as a 3D box one
\* lattice unit thick; periodic or not. The 2D boxes are divided into cells
\* of every nominal width up to QMaxWidth, the 3D boxes into the widest only
QBoxes ==
    {[L |-> <<QBoxX, QBoxY, 1>>, periodic |-> per, is2D |-> is2D] :
        per \in BOOLEAN, is2D \in BOOLEAN}

QWidths(box) == IF box.is2D THEN 1..QMaxWidth ELSE {QMaxWidth}

\* the point sets that are queried: one or two points
QPointSets(box) == SeqsUpTo(Positions(box), 2)

\* this LinkCell, as the iterators see it
ThisLinkCell ==
    [box |-> m_box, dims |-> m_cell_index, width |-> m_cell_width,
     points |-> m_points, list |-> m_cell_list]

\* LinkCell(box, cell_width, points, n_points)
InitLinkCell ==
    /\ m_box \in QBoxes
    /\ m_cell_width \in QWidths(m_box)
    /\ m_cell_index = computeDimensions(m_box, m_cell_width)
    /\ m_points \in QPointSets(m_box)
    /\ m_n_points = Len(m_points)
    /\ m_cell_list = computeCellList(m_box, m_cell_index, m_points)
    /\ lcBuilds = 1

InitBall ==
    /\ InitLinkCell
    /\ \E i \in 0..(Len(m_points) - 1), r_max \in 1..QMaxR, exclude_ii \in BOOLEAN :
          /\ qit = LinkCellQueryBallIterator(ThisLinkCell, m_points[i + 1], i,
                                             r_max, exclude_ii)
          /\ qreq = [num_neighbors |-> 0, r_max |-> r_max]
    /\ qout = <<>>
    /\ qlate = 0
    /\ ShellIdle
    /\ WrapIdle
    /\ CnIdle
    /\ DvIdle
    /\ AuxIdle

\* it->next()
BallNext ==
    /\ ~qit.m_finished
    /\ LET r == BallNextCall(ThisLinkCell, qit)
       IN /\ qit' = r.it
          /\ qout' = IF r.found THEN Append(qout, r.bond) ELSE qout
    /\ UNCHANGED <<qreq, qlate>>
    /\ UNCHANGED <<shellVars, wrapVars, lcVars, cnVars, dvVars, auxVars>>

\* it->next() on an iterator that has finished
BallLate ==
    /\ qit.m_finished
    /\ qlate < QMaxLate
    /\ LET r == BallNextCall(ThisLinkCell, qit)
       IN /\ qit' = r.it
          /\ qout' = IF r.found THEN Append(qout, r.bond) ELSE qout
    /\ qlate' = qlate + 1
    /\ UNCHANGED qreq
    /\ UNCHANGED <<shellVars, wrapVars, lcVars, cnVars, dvVars, auxVars>>

NextBall == BallNext \/ BallLate

SpecBall == InitBall /\ [][NextBall]_vars

(***************************************************************************)
(* SpecKnn: a LinkCell is built on one or more points and a                *)
(* LinkCellQueryIterator on it is drained by next() calls.                 *)
(***************************************************************************)
KnnBoxes ==
    {[L |-> <<KnnBoxX, 1, 1>>, periodic |-> per, is2D |-> is2D] :
        per \in BOOLEAN, is2D \in BOOLEAN}

\* the cell width and the cutoffs the queries are made with, and the
\* numbers of points the LinkCell is built on
KnnWidths == {3}

KnnCutoffs(box) == IF box.is2D THEN {2, 5} ELSE {2}

KnnPointCounts == {1, 2}

InitKnn ==
    /\ m_box \in KnnBoxes
    /\ m_cell_width \in KnnWidths
    /\ m_cell_index = computeDimensions(m_box, m_cell_width)
    /\ m_points \in UNION {[1..n -> Positions(m_box)] : n \in KnnPointCounts}
    /\ m_n_points = Len(m_points)
    /\ m_cell_list = computeCellList(m_box, m_cell_index, m_points)
    /\ lcBuilds = 1
    /\ \E q \in Positions(m_box), k \in 1..KnnMaxK, r_max \in KnnCutoffs(m_box),
          exclude_ii \in BOOLEAN :
          /\ qit = LinkCellQueryIterator(ThisLinkCell, q, 0, k, r_max, exclude_ii)
          /\ qreq = [num_neighbors |-> k, r_max |-> r_max]
    /\ qout = <<>>
    /\ qlate = 0
    /\ ShellIdle
    /\ WrapIdle
    /\ CnIdle
    /\ DvIdle
    /\ AuxIdle

\* it->next()
KnnNext ==
    /\ ~qit.m_finished
    /\ LET r == KnnNextCall(ThisLinkCell, qit)
       IN /\ qit' = r.it
          /\ qout' = IF r.found THEN Append(qout, r.bond) ELSE qout
    /\ UNCHANGED <<qreq, qlate>>
    /\ UNCHANGED <<shellVars, wrapVars, lcVars, cnVars, dvVars, auxVars>>

NextKnn == KnnNext

SpecKnn == InitKnn /\ [][NextKnn]_vars

(***************************************************************************)
(* SpecCache: several threads call getCellNeighbors on the cells of one    *)
(* LinkCell, in any interleaving.  A call is a find on the hash map and,   *)
(* on a miss, the computation and the insertion of the list.               *)
(***************************************************************************)
\* the threads that call getCellNeighbors
Threads == {"t1", "t2"}

CacheGrids ==
    {d \in (1..CacheMaxCells) \X (1..CacheMaxCells) \X (1..CacheMaxCells) :
        getNumElements(d) <= CacheMaxCells}

InitCache ==
    /\ m_cell_index \in CacheGrids
    /\ \E is2D \in BOOLEAN :
          /\ is2D => m_cell_index[3] = 1
          /\ m_box = [L |-> m_cell_index, periodic |-> TRUE, is2D |-> is2D]
    /\ m_cell_width = 1
    /\ m_points = <<>>
    /\ m_n_points = 0
    /\ m_cell_list = <<>>
    /\ lcBuilds = 0
    /\ m_cell_neighbors = <<>>
    /\ cnThread = [t \in Threads |-> [pc |-> "idle", cell |-> 0]]
    /\ cnLast = <<>>
    /\ ShellIdle
    /\ WrapIdle
    /\ QIdle
    /\ DvIdle
    /\ AuxIdle

\* getCellNeighbors(cell) up to the find: a hit returns the stored list, a
\* miss goes on to computeCellNeighbors
GetCellNeighbors(t) ==
    /\ cnThread[t].pc = "idle"
    /\ \E cell \in 0..(getNumElements(m_cell_index) - 1) :
          LET a == CacheFind(m_cell_neighbors, cell)
          IN IF a # <<>>
             THEN /\ cnLast' = <<[cell |-> cell, list |-> a[1]]>>
                  /\ UNCHANGED cnThread
             ELSE /\ cnThread' = [cnThread EXCEPT ![t] = [pc |-> "compute", cell |-> cell]]
                  /\ UNCHANGED cnLast
    /\ UNCHANGED m_cell_neighbors
    /\ UNCHANGED <<shellVars, wrapVars, lcVars, qVars, dvVars, auxVars>>

\* computeCellNeighbors(cell): the list is computed, inserted and returned
ComputeCellNeighbors(t) ==
    /\ cnThread[t].pc = "compute"
    /\ LET cell == cnThread[t].cell
           list == computeCellNeighbors(m_cell_index, m_box.is2D, cell)
       IN /\ m_cell_neighbors' = CacheInsert(m_cell_neighbors, cell, list)
          /\ cnLast' = <<[cell |-> cell, list |-> list]>>
    /\ cnThread' = [cnThread EXCEPT ![t] = [pc |-> "idle", cell |-> 0]]
    /\ UNCHANGED <<shellVars, wrapVars, lcVars, qVars, dvVars, auxVars>>

NextCache == \E t \in Threads : GetCellNeighbors(t) \/ ComputeCellNeighbors(t)

SpecCache == InitCache /\ [][NextCache]_vars

(***************************************************************************)
(* SpecDriver: loop_over_NeighborList runs twice on the same arguments.    *)
(* The range of loop indices is split into sub-ranges in any way, and the  *)
(* workers of the pool take sub-ranges and run the range body on them, in  *)
(* any interleaving.                                                       *)
(***************************************************************************)
Workers == {"w1", "w2"}

\* the stored bonds a NeighborList is made of: <<i, j, distance, weight>>
DrvStoredBonds == {<<0, 1, 1, 2>>, <<1, 0, 2, 1>>, <<0, 0, 1, 1>>, <<1, 1, 2, 2>>}

\* the bonds a query iterator yields
DrvBonds == {[ref_id |-> 0, distance |-> 1], [ref_id |-> 1, distance |-> 2]}

\* what NeighborQueryIterator::next returns once there is no bond left
ITERATOR_TERMINATOR == [ref_id |-> -1, distance |-> 0]

\* arr[k] of a C array
At(arr, k) == arr[k + 1]

\* the NeighborList that stores the bonds bs: getNeighbors(), getNumBonds(),
\* getDistances(), getWeights()
MakeNeighborList(bs) ==
    [neighbors |-> [k \in 1..(2 * Len(bs)) |->
                       bs[(k + 1) \div 2][IF k % 2 = 1 THEN 1 ELSE 2]],
     num_bonds |-> Len(bs),
     distances |-> [b \in 1..Len(bs) |-> bs[b][3]],
     weights   |-> [b \in 1..Len(bs) |-> bs[b][4]]]

\* mutant: the two ids of the bond are read from each other's slot
BondCall_swapped(nl, bond) ==
    <<At(nl.neighbors, 2 * bond + 1), At(nl.neighbors, 2 * bond),
      At(nl.distances, bond), At(nl.weights, bond)>>

\* the arguments of cf for one bond of the list
BondCall(nl, bond) ==
    <<At(nl.neighbors, 2 * bond), At(nl.neighbors, 2 * bond + 1),
      At(nl.distances, bond), At(nl.weights, bond)>>

\* iter->query(i): the iterator of query point i
query(i) == [idx |-> i, pos |-> 0, finished |-> FALSE]

\* it->next(): the next bond, or the terminator and the iterator is at its end
NeighborQueryIterator_next(yields, it) ==
    IF it.pos < Len(At(yields, it.idx))
    THEN [it |-> [it EXCEPT !.pos = @ + 1], np |-> At(At(yields, it.idx), it.pos)]
    ELSE [it |-> [it EXCEPT !.finished = TRUE], np |-> ITERATOR_TERMINATOR]

\* it->end()
NeighborQueryIterator_end(it) == it.finished

\* mutant: no bond is filtered
PassesFilter_all(excl, i, np) == TRUE

\* if (!qargs.exclude_ii || i != np.ref_id)
PassesFilter(excl, i, np) == ~excl \/ i # np.ref_id

\* the arguments of cf for one yielded bond
QueryCall(i, np) == <<np.ref_id, i, np.distance, 1>>

\* mutant: the second sub-range starts one index late
Split_lossy(r, m) == {<<r[1], m>>} \cup (IF m + 1 < r[2] THEN {<<m + 1, r[2]>>} ELSE {})

\* blocked_range [r[1], r[2]) split at m
Split(r, m) == {<<r[1], m>>, <<m, r[2]>>}

WorkerIdle ==
    [pc |-> "idle", i |-> 0, end |-> 0, it |-> query(0), np |-> ITERATOR_TERMINATOR]

\* the number of loop indices: n_bonds, or Np
NumIndices(nl, yields) == IF nl # <<>> THEN nl[1].num_bonds ELSE Len(yields)

\* parallel_for(blocked_range(0, n), ...): nothing is run on an empty range
WholeRange(n) == IF n > 0 THEN {<<0, n>>} ELSE {}

DrvDone == dvPending = {} /\ \A w \in Workers : dvWorker[w].pc = "idle"

DrvYieldsOfOne ==
    {<<>>} \cup {<<b>> : b \in DrvBonds}
           \cup {<<p[1], p[2]>> : p \in {q \in DrvBonds \X DrvBonds : q[1] # q[2]}}

\* one query point whose iterator yields every bond
DrvAllBonds == <<[ref_id |-> 0, distance |-> 1], [ref_id |-> 1, distance |-> 2]>>

InitDriver ==
    /\ \/ /\ nlist \in {<<MakeNeighborList(bs)>> :
                           bs \in {<<>>} \cup SeqsUpTo(DrvStoredBonds, DrvMaxBonds)}
          /\ dvYields = <<DrvAllBonds>>
       \/ /\ nlist = <<>>
          /\ dvYields \in {<<>>} \cup SeqsUpTo(DrvYieldsOfOne, DrvMaxNp)
    /\ qargs \in [exclude_ii : BOOLEAN]
    /\ dvPending = WholeRange(NumIndices(nlist, dvYields))
    /\ dvWorker = [w \in Workers |-> WorkerIdle]
    /\ dvCalls = [k \in 0..(NumIndices(nlist, dvYields) - 1) |-> <<>>]
    /\ dvQueries = [k \in 0..(Len(dvYields) - 1) |-> 0]
    /\ dvRun = 1
    /\ dvPrev = <<>>
    /\ dvLog = [k \in 0..(Len(dvYields) - 1) |-> <<>>]
    /\ ShellIdle
    /\ WrapIdle
    /\ LcIdle
    /\ QIdle
    /\ CnIdle
    /\ AuxIdle

\* the range is split further before a worker takes it
DrvSplit ==
    /\ \E r \in dvPending : \E m \in (r[1] + 1)..(r[2] - 1) :
          dvPending' = (dvPending \ {r}) \cup Split(r, m)
    /\ UNCHANGED <<nlist, dvYields, qargs, dvWorker, dvCalls, dvQueries,
                   dvRun, dvPrev, dvLog>>

\* a worker takes a sub-range and enters the range body on it
DrvTake(w) ==
    /\ dvWorker[w].pc = "idle"
    /\ \E r \in dvPending :
          /\ dvPending' = dvPending \ {r}
          /\ dvWorker' = [dvWorker EXCEPT ![w] =
                 [WorkerIdle EXCEPT !.pc = IF nlist # <<>> THEN "bond" ELSE "query",
                                    !.i = r[1], !.end = r[2]]]
    /\ UNCHANGED <<nlist, dvYields, qargs, dvCalls, dvQueries, dvRun, dvPrev, dvLog>>

\* the worker's loop index after ++i: the body returns at the range's end
NextIndex(wk, pc) ==
    IF wk.i + 1 = wk.end THEN WorkerIdle
    ELSE [WorkerIdle EXCEPT !.pc = pc, !.i = wk.i + 1, !.end = wk.end]

\* loop_over_NeighborList_parallel: one iteration of the loop over bonds
DrvBond(w) ==
    /\ dvWorker[w].pc = "bond"
    /\ LET bond == dvWorker[w].i
       IN dvCalls' = [dvCalls EXCEPT ![bond] = Append(@, BondCall(nlist[1], bond))]
    /\ dvWorker' = [dvWorker EXCEPT ![w] = NextIndex(@, "bond")]
    /\ UNCHANGED <<nlist, dvYields, qargs, dvPending, dvQueries, dvRun, dvPrev, dvLog>>

\* it = iter->query(i); np = it->next();
DrvQuery(w) ==
    /\ dvWorker[w].pc = "query"
    /\ LET i == dvWorker[w].i
           n == NeighborQueryIterator_next(dvYields, query(i))
       IN /\ dvQueries' = [dvQueries EXCEPT ![i] = @ + 1]
          /\ dvWorker' = [dvWorker EXCEPT ![w] =
                 [@ EXCEPT !.pc = "drain", !.it = n.it, !.np = n.np]]
          /\ dvLog' = [dvLog EXCEPT ![i] = Append(@, "next")]
    /\ UNCHANGED <<nlist, dvYields, qargs, dvPending, dvCalls, dvRun, dvPrev>>

\* mutant: the body is run before the test, do { ... } while (!it->end())
DrainPass_doWhile(yields, excl, wk) ==
    LET n == NeighborQueryIterator_next(yields, wk.it)
        passes == PassesFilter(excl, wk.i, wk.np)
    IN [exit |-> NeighborQueryIterator_end(n.it), it |-> n.it, np |-> n.np,
        call |-> IF passes THEN <<QueryCall(wk.i, wk.np)>> ELSE <<>>,
        events |-> (IF passes THEN <<"cf">> ELSE <<>>) \o <<"next">>
                   \o <<IF NeighborQueryIterator_end(n.it) THEN "end1" ELSE "end0">>]

\* one test of while (!it->end()) and, if it holds, one pass of its body:
\* whether the loop is left, the iterator and np after it, the cf call made
\* and what was done with the iterator
DrainPass(yields, excl, wk) ==
    LET n == NeighborQueryIterator_next(yields, wk.it)
        passes == PassesFilter(excl, wk.i, wk.np)
    IN IF NeighborQueryIterator_end(wk.it)
       THEN [exit |-> TRUE, it |-> wk.it, np |-> wk.np, call |-> <<>>,
             events |-> <<"end1">>]
       ELSE [exit |-> FALSE, it |-> n.it, np |-> n.np,
             call |-> IF passes THEN <<QueryCall(wk.i, wk.np)>> ELSE <<>>,
             events |-> <<"end0">> \o (IF passes THEN <<"cf">> ELSE <<>>)
                        \o <<"next">>]

DrvDrain(w) ==
    /\ dvWorker[w].pc = "drain"
    /\ LET wk == dvWorker[w]
           p == DrainPass(dvYields, qargs.exclude_ii, wk)
       IN /\ dvCalls' = [dvCalls EXCEPT ![wk.i] = @ \o p.call]
          /\ dvLog' = [dvLog EXCEPT ![wk.i] = @ \o p.events]
          /\ dvWorker' = [dvWorker EXCEPT ![w] =
                 IF p.exit THEN NextIndex(wk, "query")
                 ELSE [wk EXCEPT !.it = p.it, !.np = p.np]]
    /\ UNCHANGED <<nlist, dvYields, qargs, dvPending, dvQueries, dvRun, dvPrev>>

\* the first run has returned: the driver is called again on the same arguments
DrvRerun ==
    /\ dvRun = 1
    /\ DrvDone
    /\ dvRun' = 2
    /\ dvPrev' = dvCalls
    /\ dvPending' = WholeRange(NumIndices(nlist, dvYields))
    /\ dvCalls' = [k \in DOMAIN dvCalls |-> <<>>]
    /\ dvQueries' = [k \in DOMAIN dvQueries |-> 0]
    /\ dvLog' = [k \in DOMAIN dvLog |-> <<>>]
    /\ UNCHANGED <<nlist, dvYields, qargs, dvWorker>>

NextDriver ==
    /\ \/ DrvSplit
       \/ DrvRerun
       \/ \E w \in Workers : DrvTake(w) \/ DrvBond(w) \/ DrvQuery(w) \/ DrvDrain(w)
    /\ UNCHANGED <<shellVars, wrapVars, lcVars, qVars, cnVars, auxVars>>

SpecDriver == InitDriver /\ [][NextDriver]_vars

(***************************************************************************)
(* ETSArrayWrapper (NeighborComputeFunctional.h): a                        *)
(* tbb::enumerable_thread_specific<T*> whose element for a thread is made  *)
(* by the pool's initialiser on that thread's first local().  An array is  *)
(* a heap entry named by its handle, its index in etsHeap; handle 0 is the *)
(* null pointer.  delete[] counts the releases of an entry.                *)
(***************************************************************************)
EtsMaxSize == 2
EtsMaxAllocs == 3

\* mutant: the new array is left as operator new[] returned it
makeNewEmptyArray_noZero(size) == [i \in 1..size |-> 1]

\* new T[size], then memset to zero
makeNewEmptyArray(size) == [i \in 1..size |-> 0]

NoElements == [w \in Workers |-> <<>>]

\* ETSArrayWrapper(): size 0, the initialiser returns nullptr
ETSArrayWrapperDefault ==
    [m_size |-> 0, finit |-> "null", array |-> NoElements, alive |-> TRUE]

\* ETSArrayWrapper(size): the initialiser allocates m_size elements
ETSArrayWrapper(size) ==
    [m_size |-> size, finit |-> "new", array |-> NoElements, alive |-> TRUE]

\* the workers whose element is the array h
HoldersOf(pool, h) == {w \in Workers : pool.array[w] = <<h>>}

\* delete[] on every element of the container; delete[] of nullptr does
\* nothing
deleteArray(pool, heap) ==
    [h \in 1..Len(heap) |->
        [heap[h] EXCEPT !.released = @ + Cardinality(HoldersOf(pool, h))]]

\* mutant: the container keeps its elements
update_keep(pool, heap, size) ==
    [pool |-> [pool EXCEPT !.m_size = size, !.finit = "new"],
     heap |-> deleteArray(pool, heap)]

\* update(size): m_size = size; deleteArray(); array is assigned a new
\* container, which has no element
update(pool, heap, size) ==
    [pool |-> [pool EXCEPT !.m_size = size, !.finit = "new",
                           !.array = NoElements],
     heap |-> deleteArray(pool, heap)]

\* the element the initialiser makes, and the heap after it
InitElement(pool, heap) ==
    IF pool.finit = "null"
    THEN [h |-> 0, heap |-> heap]
    ELSE [h |-> Len(heap) + 1,
          heap |-> Append(heap, [len |-> pool.m_size,
                                 data |-> makeNewEmptyArray(pool.m_size),
                                 released |-> 0])]

EtsData(h) == IF h = 0 THEN <<>> ELSE etsHeap[h].data

InitEts ==
    /\ etsPool \in {ETSArrayWrapperDefault}
                      \cup {ETSArrayWrapper(size) : size \in 0..EtsMaxSize}
    /\ etsHeap = <<>>
    /\ etsPc = [w \in Workers |-> "idle"]
    /\ etsOp = [kind |-> "ctor", w |-> "", h |-> 0, first |-> FALSE,
                before |-> <<>>]
    /\ etsTouched = {}
    /\ ShellIdle
    /\ WrapIdle
    /\ LcIdle
    /\ QIdle
    /\ CnIdle
    /\ DvIdle
    /\ CcIdle
    /\ SpIdle
    /\ CurIdle

EtsRest == <<shellVars, wrapVars, lcVars, qVars, cnVars, dvVars, ccVars, spVars,
            cursor>>

\* array.local() by worker w, up to the lookup of w's element: an existing
\* element is returned, a missing one is made in EtsCreate
EtsLocal(w) ==
    /\ etsPool.alive
    /\ etsPc[w] = "idle"
    /\ etsTouched' = etsTouched \cup {w}
    /\ IF etsPool.array[w] # <<>>
       THEN /\ etsOp' = [kind |-> "local", w |-> w, h |-> etsPool.array[w][1],
                         first |-> FALSE,
                         before |-> EtsData(etsPool.array[w][1])]
            /\ UNCHANGED <<etsPool, etsHeap, etsPc>>
       ELSE /\ etsPc' = [etsPc EXCEPT ![w] = "miss"]
            /\ UNCHANGED <<etsPool, etsHeap, etsOp>>
    /\ UNCHANGED EtsRest

\* the rest of array.local() on a miss: the initialiser makes w's element
EtsCreate(w) ==
    /\ etsPc[w] = "miss"
    /\ etsPool.finit = "new" => Len(etsHeap) < EtsMaxAllocs
    /\ LET r == InitElement(etsPool, etsHeap) IN
          /\ etsHeap' = r.heap
          /\ etsPool' = [etsPool EXCEPT !.array[w] = <<r.h>>]
          /\ etsOp' = [kind |-> "local", w |-> w, h |-> r.h, first |-> TRUE,
                       before |-> <<>>]
    /\ etsPc' = [etsPc EXCEPT ![w] = "idle"]
    /\ UNCHANGED etsTouched
    /\ UNCHANGED EtsRest

\* worker w stores v in element i of its array
EtsWrite(w) ==
    /\ etsPool.alive
    /\ etsPc[w] = "idle"
    /\ etsPool.array[w] # <<>>
    /\ LET h == etsPool.array[w][1] IN
          /\ h # 0
          /\ \E i \in 1..etsHeap[h].len, v \in {0, 1} :
                etsHeap' = [etsHeap EXCEPT ![h].data[i] = v]
          /\ etsOp' = [kind |-> "write", w |-> w, h |-> h, first |-> FALSE,
                       before |-> <<>>]
    /\ UNCHANGED <<etsPool, etsPc, etsTouched>>
    /\ UNCHANGED EtsRest

\* update(size), called while no worker is inside local()
EtsUpdate ==
    /\ etsPool.alive
    /\ \A w \in Workers : etsPc[w] = "idle"
    /\ \E size \in 0..EtsMaxSize :
          LET r == update(etsPool, etsHeap, size) IN
             /\ etsPool' = r.pool
             /\ etsHeap' = r.heap
    /\ etsOp' = [kind |-> "update", w |-> "", h |-> 0, first |-> FALSE,
                 before |-> <<>>]
    /\ etsTouched' = {}
    /\ UNCHANGED etsPc
    /\ UNCHANGED EtsRest

\* ~ETSArrayWrapper(), called while no worker is inside local()
EtsDestroy ==
    /\ etsPool.alive
    /\ \A w \in Workers : etsPc[w] = "idle"
    /\ etsHeap' = deleteArray(etsPool, etsHeap)
    /\ etsPool' = [etsPool EXCEPT !.alive = FALSE]
    /\ etsOp' = [kind |-> "dtor", w |-> "", h |-> 0, first |-> FALSE,
                 before |-> <<>>]
    /\ UNCHANGED <<etsPc, etsTouched>>
    /\ UNCHANGED EtsRest

NextEts ==
    \/ \E w \in Workers : EtsLocal(w)
    \/ \E w \in Workers : EtsCreate(w)
    \/ \E w \in Workers : EtsWrite(w)
    \/ EtsUpdate
    \/ EtsDestroy

SpecEts == InitEts /\ [][NextEts]_vars

(***************************************************************************)
(* SpecCursor: a cell list is built and an IteratorLinkCell is made on one *)
(* of its cells; next() and begin() are called on it in any order, next()  *)
(* also when atEnd() is true.  A read of m_cell_list outside the array is  *)
(* undefined: it yields any value, or the call does not return.            *)
(***************************************************************************)
\* most begin() calls on a cursor
CurMaxBegins == 1

\* the numbers of points of the cell lists a cursor is used on
CursorPointCounts == {1, 2, 3}

\* what a read outside the array may yield: a point index, an index
\* outside the array, the terminator
StrayValues(list) ==
    {0, Cardinality(DOMAIN list), LINK_CELL_TERMINATOR}

\* the slot next() reads, and the slot begin() reads
NextSlot(it) == it.m_cur_idx

BeginSlot(it) == it.m_Np + it.m_cell

InitCursor ==
    /\ m_box \in CLBoxes
    /\ m_cell_width \in 1..CLBox
    /\ m_cell_index = computeDimensions(m_box, m_cell_width)
    /\ m_points \in UNION {[1..k -> Positions(m_box)] : k \in CursorPointCounts}
    /\ m_n_points = Len(m_points)
    /\ m_cell_list = computeCellList(m_box, m_cell_index, m_points)
    /\ lcBuilds = 1
    /\ \E cell \in 0..(getNumElements(m_cell_index) - 1) :
          cursor = [it |-> itercell(ThisLinkCell, cell), yield |-> <<>>,
                    last |-> <<>>, reads |-> {}, stray |-> {}, lost |-> "no",
                    begins |-> 0]
    /\ ShellIdle
    /\ WrapIdle
    /\ QIdle
    /\ CnIdle
    /\ DvIdle
    /\ CcIdle
    /\ SpIdle
    /\ EtsIdle

CursorRest ==
    <<shellVars, wrapVars, lcVars, qVars, cnVars, dvVars, ccVars, spVars, etsVars>>

\* the cursor after a call has read `slot` inside the array and returned
\* the index it holds; `yield` is what the calls returned before
CursorRead(it1, slot, yield) ==
    [cursor EXCEPT !.it = it1,
                   !.last = <<it1.m_cur_idx>>,
                   !.reads = @ \cup {slot},
                   !.lost = "no",
                   !.yield = IF it1.m_cur_idx = LINK_CELL_TERMINATOR THEN yield
                             ELSE Append(yield, it1.m_cur_idx)]

\* the cursors after a call `op` has read `slot` outside the array
CursorStray(op, slot) ==
    {[cursor EXCEPT !.it.m_cur_idx = v,
                    !.last = <<v>>,
                    !.stray = @ \cup {[op |-> op, atEnd |-> atEnd(cursor.it)]},
                    !.lost = "stray"] : v \in StrayValues(m_cell_list)}
    \cup {[cursor EXCEPT !.stray = @ \cup {[op |-> op, atEnd |-> atEnd(cursor.it)]},
                         !.lost = "crashed"]}

\* it.next()
CursorNext ==
    /\ cursor.lost = "no"
    /\ LET slot == NextSlot(cursor.it)
       IN IF slot \in DOMAIN m_cell_list
          THEN cursor' = CursorRead(next(m_cell_list, cursor.it), slot, cursor.yield)
          ELSE cursor' \in CursorStray("next", slot)
    /\ UNCHANGED CursorRest

\* it.begin()
CursorBegin ==
    /\ cursor.lost # "crashed"
    /\ cursor.begins < CurMaxBegins
    /\ LET slot == BeginSlot(cursor.it)
       IN IF slot \in DOMAIN m_cell_list
          THEN cursor' = [CursorRead(begin(m_cell_list, cursor.it), slot, <<>>)
                             EXCEPT !.begins = @ + 1]
          ELSE cursor' \in CursorStray("begin", slot)
    /\ UNCHANGED CursorRest

NextCursor == CursorNext \/ CursorBegin

SpecCursor == InitCursor /\ [][NextCursor]_vars

(***************************************************************************)
(* C1: a drained ball-query iterator has returned exactly the points whose *)
(* minimum-image distance to the query point is <= r_max, without the      *)
(* query point's own index when exclude-self is requested, in periodic and *)
(* in non-periodic boxes; no point within r_max is missed.                 *)
(***************************************************************************)
InBall(p) ==
    /\ DistSq(m_box, m_points[p + 1], qit.m_query_point) <= qit.m_r_max * qit.m_r_max
    /\ ~(qit.m_exclude_ii /\ p = qit.m_query_point_idx)

BruteForceBall == {p \in 0..(m_n_points - 1) : InBall(p)}

C1_BallExact ==
    /\ \A i \in 1..Len(qout) :
          /\ qout[i].ref_id \in BruteForceBall
          /\ qout[i].id = qit.m_query_point_idx
          /\ qout[i].distsq = DistSq(m_box, m_points[qout[i].ref_id + 1],
                                     qit.m_query_point)
    /\ qit.m_finished => {qout[i].ref_id : i \in 1..Len(qout)} = BruteForceBall

\* a drained query in a periodic box has returned a point that is within
\* r_max only across the boundary, and a point lies outside the ball
C1_Witness ==
    /\ qit.m_finished
    /\ m_box.periodic
    /\ qit.m_exclude_ii
    /\ Len(qout) = 1
    /\ Abs(m_points[qout[1].ref_id + 1][1] - qit.m_query_point[1]) > qit.m_r_max
    /\ m_cell_index[1] > 2

(***************************************************************************)
(* C2: the bonds a LinkCellQueryIterator has returned are bonds to         *)
(* distinct points with their distances, in ascending order of distance;   *)
(* no point that has not been returned is closer than a returned one; and  *)
(* a drained iterator has returned num_neighbors bonds, or all the points  *)
(* within r_max if these are fewer.                                        *)
(***************************************************************************)
KnnDistSq(p) == DistSq(m_box, m_points[p + 1], qit.m_query_point)

KnnCandidates ==
    {p \in 0..(m_n_points - 1) : ~(qit.m_exclude_ii /\ p = qit.m_query_point_idx)}

KnnReturned == {qout[i].ref_id : i \in 1..Len(qout)}

C2_KnnExact ==
    /\ \A i \in 1..Len(qout) :
          /\ qout[i].ref_id \in KnnCandidates
          /\ qout[i].id = qit.m_query_point_idx
          /\ qout[i].distsq = KnnDistSq(qout[i].ref_id)
          /\ \A j \in 1..Len(qout) : i < j =>
                /\ qout[i].distsq <= qout[j].distsq
                /\ qout[i].ref_id # qout[j].ref_id
          /\ \A p \in KnnCandidates \ KnnReturned : qout[i].distsq <= KnnDistSq(p)
    /\ qit.m_finished =>
          LET within == {p \in KnnCandidates :
                            KnnDistSq(p) <= qit.m_r_max * qit.m_r_max}
          IN Len(qout) = (IF Cardinality(within) < qit.m_num_neighbors
                          THEN Cardinality(within) ELSE qit.m_num_neighbors)

\* a drained query for one neighbor has returned a point of a neighboring
\* cell, which is closer than a point of the query point's own cell
C2_Witness ==
    /\ qit.m_finished
    /\ qit.m_num_neighbors = 1
    /\ Len(qout) = 1
    /\ getCell(m_box, m_cell_index, m_points[qout[1].ref_id + 1])
          # getCell(m_box, m_cell_index, qit.m_query_point)
    /\ \E p \in KnnCandidates :
          /\ getCell(m_box, m_cell_index, m_points[p + 1])
                = getCell(m_box, m_cell_index, qit.m_query_point)
          /\ KnnDistSq(p) > qout[1].distsq

(***************************************************************************)
(* C3: the offsets an IteratorCellShell produces at range N, from the      *)
(* first offset of the shell until its range becomes N + 1, are exactly    *)
(* the offsets of Chebyshev distance N, each once: 24*N*N + 2 of them in   *)
(* 3D and 8*N in 2D (1 for N = 0), and dz is 0 in every state of a 2D      *)
(* enumerator.                                                             *)
(***************************************************************************)
Cheb(o) == Max2(Abs(o[1]), Max2(Abs(o[2]), Abs(o[3])))

ChebShell(n, is2D) ==
    {o \in (-n..n) \X (-n..n) \X (IF is2D THEN {0} ELSE -n..n) : Cheb(o) = n}

SeqSet(s) == {s[i] : i \in 1..Len(s)}

NoDup(s) == \A i, j \in 1..Len(s) : s[i] = s[j] => i = j

ShellCount(n, is2D) ==
    IF n = 0 THEN 1 ELSE IF is2D THEN 8 * n ELSE 24 * n * n + 2

C3_ShellExact ==
    /\ shell.m_is2D => shell.m_current_z = 0
    /\ NoDup(shellOut)
    /\ SeqSet(shellOut) \subseteq ChebShell(shell.m_range, shell.m_is2D)
    /\ shellDone.range >= 0 =>
          /\ NoDup(shellDone.offsets)
          /\ SeqSet(shellDone.offsets) = ChebShell(shellDone.range, shell.m_is2D)
          /\ Len(shellDone.offsets) = ShellCount(shellDone.range, shell.m_is2D)

\* a 3D shell of range >= 2 and a 2D shell of range >= 1 have been completed
C3_Witness3D ==
    /\ ~shell.m_is2D
    /\ shellDone.range = MaxRange
    /\ Len(shellDone.offsets) = 24 * MaxRange * MaxRange + 2

(***************************************************************************)
(* C4: after computeCellList, also after a rebuild, the chains of all the  *)
(* cells, walked from the head through the link slots, visit every point   *)
(* index in [0, n_points) exactly once in total, each in the cell getCell  *)
(* assigns it to, and every chain ends at the terminator.                  *)
(***************************************************************************)
NumCells == getNumElements(m_cell_index)

Chains == [c \in 0..(NumCells - 1) |-> CellChain(m_cell_list, m_n_points, NumCells, c)]

C4_Partition ==
    lcBuilds > 0 =>
        /\ DOMAIN m_cell_list = 0..(m_n_points + NumCells - 1)
        /\ \A c \in 0..(NumCells - 1) :
              /\ Chains[c].ended
              /\ NoDup(Chains[c].items)
              /\ \A i \in 1..Len(Chains[c].items) :
                    /\ Chains[c].items[i] \in 0..(m_n_points - 1)
                    /\ getCell(m_box, m_cell_index, m_points[Chains[c].items[i] + 1]) = c
        /\ \A p \in 0..(m_n_points - 1) :
              Cardinality({c \in 0..(NumCells - 1) : p \in SeqSet(Chains[c].items)}) = 1

\* a rebuild has left a cell with two points and another cell empty, in a
\* grid of several cells
C4_Witness ==
    /\ lcBuilds = 2
    /\ NumCells > 1
    /\ \E c, e \in 0..(NumCells - 1) :
          /\ Len(Chains[c].items) >= 2
          /\ Chains[c].items[1] > Chains[c].items[2]
          /\ Chains[e].items = <<>>

(***************************************************************************)
(* C5: in every interleaving of getCellNeighbors calls, two threads that   *)
(* miss on the same cell included, every call returns the neighbor list    *)
(* that is the function of the cell and the grid, every stored entry is    *)
(* that list, and an entry that is present never changes.                  *)
(***************************************************************************)
\* the wrapped ids of the offsets of Chebyshev distance < NeighborShellEnd
NeighborSetOf(cell) ==
    LET c == CellCoordOf(m_cell_index, cell)
    IN {Index3D(m_cell_index, (c[1] + o[1]) % m_cell_index[1],
                              (c[2] + o[2]) % m_cell_index[2],
                              (c[3] + o[3]) % m_cell_index[3]) :
           o \in UNION {ChebShell(n, m_box.is2D) : n \in 0..(NeighborShellEnd - 1)}}

IsListOf(list, S) ==
    /\ SeqSet(list) = S
    /\ \A i \in 1..(Len(list) - 1) : list[i] < list[i + 1]

C5_CacheState ==
    /\ cnLast # <<>> => IsListOf(cnLast[1].list, NeighborSetOf(cnLast[1].cell))
    /\ \A c \in DOMAIN m_cell_neighbors :
          IsListOf(m_cell_neighbors[c], NeighborSetOf(c))

C5_CacheStep ==
    \A c \in DOMAIN m_cell_neighbors :
        /\ c \in DOMAIN m_cell_neighbors'
        /\ m_cell_neighbors'[c] = m_cell_neighbors[c]

C5_CacheConcurrent == [](C5_CacheState) /\ [][C5_CacheStep]_vars

\* a thread has inserted and returned the list of a cell while another
\* thread, which missed on the same cell before, is still computing it
C5_Witness ==
    /\ cnLast # <<>>
    /\ cnLast[1].cell \in DOMAIN m_cell_neighbors
    /\ \E t \in Threads :
          cnThread[t] = [pc |-> "compute", cell |-> cnLast[1].cell]
    /\ Len(cnLast[1].list) < getNumElements(m_cell_index)

(***************************************************************************)
(* C6: with a bond list, the callback is invoked exactly once for every    *)
(* bond index in [0, n_bonds), with that bond's own reference id, query    *)
(* id, distance and weight, however the range is split and interleaved;    *)
(* no query is issued and the bond list is not modified.                   *)
(***************************************************************************)
StoredBond(nl, b) ==
    <<nl.neighbors[2 * b + 1], nl.neighbors[2 * b + 2],
      nl.distances[b + 1], nl.weights[b + 1]>>

C6_BondListState ==
    nlist # <<>> =>
        /\ \A b \in 0..(nlist[1].num_bonds - 1) :
              /\ dvCalls[b] \in {<<>>, <<StoredBond(nlist[1], b)>>}
              /\ DrvDone => dvCalls[b] = <<StoredBond(nlist[1], b)>>
        /\ \A i \in DOMAIN dvQueries : dvQueries[i] = 0

C6_BondList == [](C6_BondListState) /\ [][nlist' = nlist]_vars

\* bond 1 has had its callback while a worker is still about to process
\* bond 0 of another sub-range
C6_Witness ==
    /\ nlist # <<>>
    /\ nlist[1].num_bonds = 2
    /\ StoredBond(nlist[1], 0) # StoredBond(nlist[1], 1)
    /\ dvCalls[1] = <<StoredBond(nlist[1], 1)>>
    /\ dvCalls[0] = <<>>
    /\ \E w \in Workers : dvWorker[w].pc = "bond" /\ dvWorker[w].i = 0

(***************************************************************************)
(* C7: without a bond list, every query index i in [0, Np) is queried      *)
(* exactly once, and the callback is invoked once, in order, for each bond *)
(* the iterator of i yields, with query id i and weight 1, but never for a *)
(* bond whose reference id is i when exclude_ii is set.                    *)
(***************************************************************************)
ExpectedCalls(i) ==
    LET Keep(b) == ~(qargs.exclude_ii /\ b.ref_id = i)
        kept == SelectSeq(dvYields[i + 1], Keep)
    IN [k \in 1..Len(kept) |-> <<kept[k].ref_id, i, kept[k].distance, 1>>]

IsPrefix(s, t) == Len(s) <= Len(t) /\ s = SubSeq(t, 1, Len(s))

C7_LiveQuery ==
    nlist = <<>> /\ dvRun > 0 =>
        \A i \in 0..(Len(dvYields) - 1) :
            /\ dvQueries[i] <= 1
            /\ IsPrefix(dvCalls[i], ExpectedCalls(i))
            /\ dvQueries[i] = 0 => dvCalls[i] = <<>>
            /\ DrvDone => dvQueries[i] = 1 /\ dvCalls[i] = ExpectedCalls(i)

\* a run over two query points has returned; one of them yielded itself and
\* another point, and with exclude_ii set only the other point was passed on
C7_Witness ==
    /\ nlist = <<>>
    /\ DrvDone
    /\ qargs.exclude_ii
    /\ Len(dvYields) = 2
    /\ \E i \in 0..1 : Len(dvYields[i + 1]) = 2 /\ Len(dvCalls[i]) = 1

(***************************************************************************)
(* C8: the second run of the driver on the same arguments has made the     *)
(* same multiset of callback invocations as the first, whatever the split  *)
(* of the range and the interleaving of the workers in either run.         *)
(***************************************************************************)
RECURSIVE BagOfSeq(_)
BagOfSeq(s) ==
    IF s = <<>> THEN EmptyBag ELSE SetToBag({Head(s)}) (+) BagOfSeq(Tail(s))

RECURSIVE CallBagUpTo(_, _)
CallBagUpTo(calls, n) ==
    IF n = 0 THEN EmptyBag ELSE BagOfSeq(calls[n - 1]) (+) CallBagUpTo(calls, n - 1)

\* the multiset of all invocations recorded in calls
CallBag(calls) == CallBagUpTo(calls, Cardinality(DOMAIN calls))

C8_Deterministic ==
    dvRun = 2 /\ DrvDone => CallBag(dvCalls) = CallBag(dvPrev)

\* both runs have returned and made at least two invocations each
C8_Witness ==
    /\ dvRun = 2
    /\ DrvDone
    /\ BagCardinality(CallBag(dvPrev)) >= 2
    /\ BagCardinality(CallBag(dvCalls)) >= 2

(***************************************************************************)
(* C9: getCellIndex reduces each axis of a signed coordinate to the value  *)
(* in [0, count) congruent to it modulo count (-1 maps to count - 1) and   *)
(* returns a valid cell id of the grid.                                    *)
(***************************************************************************)
C9_TrueModulo ==
    wrapResult # <<>> =>
        /\ wrapResult[1] = Index3D(wrapDims, wrapCoord[1] % wrapDims[1],
                                             wrapCoord[2] % wrapDims[2],
                                             wrapCoord[3] % wrapDims[3])
        /\ \A a \in 1..3 :
              /\ WrapAxis(wrapCoord[a], wrapDims[a]) \in 0..(wrapDims[a] - 1)
              /\ (wrapCoord[a] - WrapAxis(wrapCoord[a], wrapDims[a])) % wrapDims[a] = 0
              /\ wrapCoord[a] = -1 => WrapAxis(wrapCoord[a], wrapDims[a]) = wrapDims[a] - 1
        /\ wrapResult[1] \in 0..(getNumElements(wrapDims) - 1)

\* a call on a coordinate that is negative on one axis and beyond the grid
\* on another
C9_Witness ==
    /\ wrapResult # <<>>
    /\ wrapCoord[1] = -1
    /\ wrapCoord[2] > wrapDims[2]
    /\ wrapDims[1] > 1
    /\ wrapResult[1] = Index3D(wrapDims, wrapDims[1] - 1, wrapCoord[2] % wrapDims[2],
                               wrapCoord[3] % wrapDims[3])

(***************************************************************************)
(* C10: getCellIndex of a coordinate inside [0, count) on every axis is    *)
(* the id of that coordinate, and getCellIndex(c) = getCellIndex(c +       *)
(* k*count) for every integer k on each axis.                              *)
(***************************************************************************)
InGrid(dims, c) == \A a \in 1..3 : c[a] \in 0..(dims[a] - 1)

C10_IdempotentPeriodic ==
    wrapResult # <<>> =>
        /\ InGrid(wrapDims, wrapCoord) =>
              wrapResult[1] = Index3D(wrapDims, wrapCoord[1], wrapCoord[2], wrapCoord[3])
        /\ wrapResult = wrapBase

\* a shifted call has crossed zero: the coordinate is negative and the
\* first call was made on another coordinate
C10_Witness ==
    /\ wrapResult # <<>>
    /\ wrapCoord[1] < 0
    /\ wrapCoord[1] + 2 * wrapDims[1] <= MaxCoord
    /\ wrapDims[1] = 3
    /\ wrapBase = wrapResult
    /\ wrapResult[1] # 0

(***************************************************************************)
(* The whole program: any one of the components                            *)
(***************************************************************************)
(***************************************************************************)
(* C11: getCellCoord returns on each axis floor(fraction * count) reduced  *)
(* cyclically into [0, count), in a periodic box or not: the result is a   *)
(* valid cell coordinate, and a position outside the box (fraction         *)
(* negative or >= 1) gets the cell of the position moved by whole box      *)
(* lengths.                                                                *)
(***************************************************************************)
CyclicCellOf(axis, p) ==
    ((makeFraction(m_box, axis, p) * m_cell_index[axis]) \div m_box.L[axis])
        % m_cell_index[axis]

C11_CellOfCyclic ==
    ccResult # <<>> =>
        /\ \A a \in 1..3 :
              /\ ccResult[1][a] \in 0..(m_cell_index[a] - 1)
              /\ ccResult[1][a] = CyclicCellOf(a, ccPoint[a])
        /\ ccResult = ccBase

\* the part of C11 that holds of positions with no negative fraction
C11_NonNegativeCyclic ==
    ccResult # <<>> =>
        \A a \in 1..3 :
            /\ ccResult[1][a] \in 0..(m_cell_index[a] - 1)
            /\ makeFraction(m_box, a, ccPoint[a]) >= 0
                  => ccResult[1][a] = CyclicCellOf(a, ccPoint[a])

(***************************************************************************)
(* C12: the advance after the last offset of shell N leaves the enumerator *)
(* equal (operator==) to a new IteratorCellShell(N + 1) of the same        *)
(* dimensionality, and it equals a new IteratorCellShell(R) in no other    *)
(* state; so the loop from a new enumerator until it equals                *)
(* IteratorCellShell(R) ends, after exactly the offsets of Chebyshev       *)
(* distance < R (from the starting range on), each once; the range never   *)
(* decreases.                                                              *)
(***************************************************************************)
RECURSIVE TotalCount(_, _, _)
TotalCount(a, b, is2D) ==
    IF a >= b THEN 0 ELSE ShellCount(a, is2D) + TotalCount(a + 1, b, is2D)

\* the offsets the enumerator stood on before the current one
ShellBefore == SubSeq(shellAll, 1, Len(shellAll) - 1)

C12_SentinelState ==
    /\ \A R \in 0..(MaxRange + 1) :
          OperatorEq(shell, IteratorCellShell(R, shell.m_is2D))
              <=> (getRange(shell) = R /\ Len(shellOut) = 1)
    /\ shellDone.range >= 0 /\ Len(shellOut) = 1 =>
          OperatorEq(shell, IteratorCellShell(shellDone.range + 1, shell.m_is2D))
    /\ Len(shellOut) = 1 /\ shellAll # <<>> =>
          /\ NoDup(ShellBefore)
          /\ SeqSet(ShellBefore) =
                UNION {ChebShell(n, shell.m_is2D) : n \in shellStart..(getRange(shell) - 1)}
    /\ Len(shellAll) <= TotalCount(shellStart, getRange(shell) + 1, shell.m_is2D)

C12_SeamlessSentinel ==
    [](C12_SentinelState) /\ [][getRange(shell') >= getRange(shell)]_vars

\* a 3D enumerator constructed at range 0 has become equal to the sentinel
\* of the largest range
C12_Witness ==
    /\ shellStart = 0
    /\ ~shell.m_is2D
    /\ shellAll # <<>>
    /\ OperatorEq(shell, IteratorCellShell(MaxRange + 1, FALSE))
    /\ Len(ShellBefore) = TotalCount(0, MaxRange + 1, FALSE)

(***************************************************************************)
(* C13: two IteratorCellShell constructed with the same range and is2D and *)
(* advanced the same number of times compare equal, in either order of     *)
(* comparison, and dereference to the same offset.                         *)
(***************************************************************************)
C13_ShellDeterministic ==
    spA # <<>> /\ spA.n = spB.n =>
        /\ OperatorEq(spA.it, spB.it)
        /\ OperatorEq(spB.it, spA.it)
        /\ OperatorDeref(spA.it) = OperatorDeref(spB.it)

\* two 3D enumerators have been advanced the same number of times, more
\* than a whole first shell holds, and stand in the -y wedge
C13_Witness ==
    /\ spA # <<>>
    /\ spA.n = spB.n
    /\ spA.n > 26
    /\ ~spA.it.m_is2D
    /\ spA.it.m_stage = 2

(***************************************************************************)
(* C14: a LinkCellQueryIterator asked for num_neighbors bonds within r_max *)
(* returns no bond farther than r_max and no more than num_neighbors       *)
(* bonds; when fewer than num_neighbors points lie within r_max it returns *)
(* exactly those and then finishes; and its search stops at a shell no     *)
(* farther out than r_max reaches.                                         *)
(***************************************************************************)
KnnWithin ==
    {p \in KnnCandidates : KnnDistSq(p) <= qreq.r_max * qreq.r_max}

C14_KnnCutoff ==
    /\ \A i \in 1..Len(qout) : qout[i].distsq <= qreq.r_max * qreq.r_max
    /\ Len(qout) <= qreq.num_neighbors
    /\ qit.m_count = Len(qout)
    /\ qit.m_finished /\ Cardinality(KnnWithin) < qreq.num_neighbors =>
          /\ KnnReturned = KnnWithin
          /\ Len(qout) = Cardinality(KnnWithin)
    /\ qit.m_searched_cells # {} =>
          /\ KnnStop(ThisLinkCell, qit)
          /\ (getRange(qit.m_neigh_cell_iter) - 2) * m_cell_width <= qreq.r_max

\* a drained query for two neighbors has returned the one point within
\* r_max and not the point beyond it
C14_Witness ==
    /\ qit.m_finished
    /\ qreq.num_neighbors = 2
    /\ Len(qout) = 1
    /\ Cardinality(KnnCandidates) = 2
    /\ \E p \in KnnCandidates : KnnDistSq(p) > qreq.r_max * qreq.r_max

(***************************************************************************)
(* C15: a worker's first access to a sized ETSArrayWrapper makes an array  *)
(* of its own, newly allocated, of the pool's length and all zero; a       *)
(* worker that has not accessed the pool has no element, the live arrays   *)
(* are exactly the workers' elements, no two workers hold the same array,  *)
(* and a repeated access returns the worker's array with its content as it *)
(* was.                                                                    *)
(***************************************************************************)
ZeroArray(n) == [i \in 1..n |-> 0]

EtsLive == {h \in 1..Len(etsHeap) : etsHeap[h].released = 0}

EtsHeld == {h \in 1..Len(etsHeap) : HoldersOf(etsPool, h) # {}}

FirstAccessFresh ==
    etsOp.kind = "local" /\ etsOp.first /\ etsPool.finit = "new" =>
        /\ etsOp.h = Len(etsHeap)
        /\ HoldersOf(etsPool, etsOp.h) = {etsOp.w}
        /\ etsHeap[etsOp.h].len = etsPool.m_size
        /\ etsHeap[etsOp.h].data = ZeroArray(etsPool.m_size)
        /\ etsHeap[etsOp.h].released = 0

C15_PerWorkerBuffers ==
    etsPool # <<>> /\ etsPool.alive =>
        /\ FirstAccessFresh
        /\ \A w \in Workers \ etsTouched : etsPool.array[w] = <<>>
        /\ EtsLive = EtsHeld
        /\ \A h \in EtsHeld : Cardinality(HoldersOf(etsPool, h)) = 1
        /\ etsOp.kind = "local" /\ ~etsOp.first =>
              /\ etsPool.array[etsOp.w] = <<etsOp.h>>
              /\ EtsData(etsOp.h) = etsOp.before

\* both workers hold an array, and one of them accesses its array again
\* and finds what it had stored there
C15_Witness ==
    /\ etsPool # <<>>
    /\ etsPool.alive
    /\ etsPool.m_size = EtsMaxSize
    /\ \A w \in Workers : etsPool.array[w] # <<>> /\ etsPool.array[w][1] # 0
    /\ etsOp.kind = "local"
    /\ ~etsOp.first
    /\ \E i \in 1..Len(etsOp.before) : etsOp.before[i] = 1

(***************************************************************************)
(* C16: update(size) releases every array the pool held and leaves the     *)
(* pool without elements, so that every array held afterwards has the new  *)
(* length and starts zeroed; the destructor releases every array held; no  *)
(* array is released twice, and an array is unreleased only while the      *)
(* live pool holds it.                                                     *)
(***************************************************************************)
C16_Lifecycle ==
    etsPool # <<>> =>
        /\ \A h \in 1..Len(etsHeap) : etsHeap[h].released <= 1
        /\ EtsLive = IF etsPool.alive THEN EtsHeld ELSE {}
        /\ etsPool.alive =>
              \A h \in EtsHeld : etsHeap[h].len = etsPool.m_size
        /\ FirstAccessFresh
        /\ etsOp.kind = "update" =>
              /\ etsPool.array = NoElements
              /\ \A h \in 1..Len(etsHeap) : etsHeap[h].released = 1
        /\ etsOp.kind = "dtor" =>
              \A h \in 1..Len(etsHeap) : etsHeap[h].released = 1

\* a pool that was resized while it held arrays is destroyed while it
\* holds arrays of the new length
C16_Witness ==
    /\ etsPool # <<>>
    /\ etsOp.kind = "dtor"
    /\ Len(etsHeap) = EtsMaxAllocs
    /\ EtsHeld # {}
    /\ \E h \in 1..Len(etsHeap) : etsHeap[h].len # etsPool.m_size

(***************************************************************************)
(* C17: within one ball query the cell cursor is set on no cell twice,     *)
(* also where different shell offsets wrap onto the same cell; the cells   *)
(* scanned are the cells recorded as searched; and no reference point is   *)
(* returned twice.                                                         *)
(***************************************************************************)
BallRefIds == [i \in 1..Len(qout) |-> qout[i].ref_id]

\* the shell offsets the cursor has passed or stands on, in number
OffsetsWalked ==
    TotalCount(0, getRange(qit.m_neigh_cell_iter), m_box.is2D) + 1

C17_NoDoubleCount ==
    /\ NoDup(qit.scanned)
    /\ SeqSet(qit.scanned) = qit.m_searched_cells \cup {qit.scanned[1]}
    /\ NoDup(BallRefIds)
    /\ \A i \in 1..Len(qout) :
          getCell(m_box, m_cell_index, m_points[qout[i].ref_id + 1])
              \in SeqSet(qit.scanned)

\* a drained query has scanned every cell of the grid once, having walked
\* more shell offsets than the grid has cells, and returned two points
C17_Witness ==
    /\ qit.m_finished
    /\ Len(qit.scanned) = getNumElements(m_cell_index)
    /\ Len(qit.scanned) > 1
    /\ OffsetsWalked > getNumElements(m_cell_index)
    /\ Len(qout) = 2

(***************************************************************************)
(* C18: a ball query is done after at most one next() call more than there *)
(* are reference points, at the first shell that lies out of range of      *)
(* r_max; a next() call on a done iterator returns no bond and leaves the  *)
(* iterator done and as it was.                                            *)
(***************************************************************************)
RangeAtDone ==
    (qreq.r_max \div m_cell_width)
        + (IF qreq.r_max = m_cell_width THEN 1 ELSE 2)

C18_DoneState ==
    /\ Len(qout) <= m_n_points
    /\ getRange(qit.m_neigh_cell_iter) <= RangeAtDone
    /\ qit.m_finished <=> getRange(qit.m_neigh_cell_iter) = RangeAtDone
    /\ ~qit.m_finished => qlate = 0

CountOf(seq, e) == Len(SelectSeq(seq, LAMBDA x : x = e))

ProtocolOk(log) ==
    \A k \in 1..Len(log) :
        /\ k = 1 => log[k] = "next"
        /\ log[k] = "cf" => k > 2 /\ log[k - 1] = "end0" /\ log[k - 2] = "next"
        /\ log[k] = "next" /\ k > 1 => log[k - 1] \in {"cf", "end0"}
        /\ log[k] \in {"end0", "end1"} => k > 1 /\ log[k - 1] = "next"
        /\ log[k] = "end1" => k = Len(log)

C19_ExhaustionProtocol ==
    nlist = <<>> /\ dvLog # <<>> =>
        \A i \in DOMAIN dvLog :
            /\ ProtocolOk(dvLog[i])
            /\ CountOf(dvLog[i], "cf") = Len(dvCalls[i])
            /\ CountOf(dvLog[i], "next") <= Len(At(dvYields, i)) + 1
            /\ CountOf(dvLog[i], "end0") <= Len(At(dvYields, i))
            /\ \A k \in 1..Len(dvCalls[i]) :
                  dvCalls[i][k][1] # ITERATOR_TERMINATOR.ref_id
            /\ DrvDone => /\ dvLog[i] # <<>>
                          /\ dvLog[i][Len(dvLog[i])] = "end1"
                          /\ CountOf(dvLog[i], "next") = Len(At(dvYields, i)) + 1

\* the run is over; one iterator had two bonds, both passed to cf; another
\* had none, and its first next() was followed by an end() that returned
\* true
C19_Witness ==
    /\ nlist = <<>>
    /\ DrvDone
    /\ \E i \in DOMAIN dvLog :
          dvLog[i] = <<"next", "end0", "cf", "next", "end0", "cf", "next", "end1">>
    /\ \E i \in DOMAIN dvLog : dvLog[i] = <<"next", "end1">>

(***************************************************************************)
(* C20: within a shell of range N >= 1 the stage only increases, by one at *)
(* a time, from 0 to 5 in 3D and from 0 to 3 in 2D; stage 0 is on y = N,   *)
(* stage 1 on x = N, stage 2 on y = -N, stage 3 on x = -N, each with z in  *)
(* -N+1..N-1 (z = 0 in 2D) and with 2N offsets for every z; stage 4 is the *)
(* whole square of (2N+1)*(2N+1) offsets at z = -N and stage 5 the whole   *)
(* square at z = N; the shell of range 0 is the offset (0, 0, 0) alone.    *)
(***************************************************************************)
\* the stage whose face the offset o of shell N lies on
StageOf(o, N, is2D) ==
    CASE N = 0 -> 5
      [] N > 0 /\ ~is2D /\ o[3] = -N -> 4
      [] N > 0 /\ ~is2D /\ o[3] = N -> 5
      [] OTHER -> IF o[2] = N /\ o[1] < N THEN 0
                  ELSE IF o[1] = N /\ o[2] > -N THEN 1
                  ELSE IF o[2] = -N /\ o[1] > -N THEN 2
                  ELSE IF o[1] = -N /\ o[2] < N THEN 3
                  ELSE -1

StageSeq(offs, N, is2D) == [k \in 1..Len(offs) |-> StageOf(offs[k], N, is2D)]

StageSize(s, N, is2D) ==
    IF N = 0 THEN (IF s = 5 THEN 1 ELSE 0)
    ELSE IF s <= 3 THEN (IF is2D THEN 2 * N ELSE 2 * N * (2 * N - 1))
    ELSE IF is2D THEN 0 ELSE (2 * N + 1) * (2 * N + 1)

LastStage(it) == IF it.m_is2D /\ it.m_range > 0 THEN 3 ELSE 5

NonDecreasing(seq) == \A k \in 1..(Len(seq) - 1) : seq[k] <= seq[k + 1]

C20_StageState ==
    LET N == shell.m_range
        o == OperatorDeref(shell)
        zs == IF shell.m_is2D THEN {0} ELSE (-N + 1)..(N - 1)
    IN /\ shell.m_stage = StageOf(o, N, shell.m_is2D)
       /\ N = 0 => o = <<0, 0, 0>> /\ shellOut = <<o>>
       /\ N > 0 =>
             /\ shell.m_stage \in 0..LastStage(shell)
             /\ shell.m_stage = 0 => o[2] = N /\ o[3] \in zs
             /\ shell.m_stage = 1 => o[1] = N /\ o[3] \in zs
             /\ shell.m_stage = 2 => o[2] = -N /\ o[3] \in zs
             /\ shell.m_stage = 3 => o[1] = -N /\ o[3] \in zs
             /\ shell.m_stage = 4 => o[3] = -N
             /\ shell.m_stage = 5 => o[3] = N
       /\ NonDecreasing(StageSeq(shellOut, N, shell.m_is2D))
       /\ shellDone.range >= 0 =>
             LET st == StageSeq(shellDone.offsets, shellDone.range, shell.m_is2D)
             IN /\ NonDecreasing(st)
                /\ \A s \in 0..5 :
                      CountOf(st, s) = StageSize(s, shellDone.range, shell.m_is2D)
                /\ \A s \in 0..3, z \in -shellDone.range..shellDone.range :
                      Cardinality({k \in 1..Len(st) :
                          st[k] = s /\ shellDone.offsets[k][3] = z})
                      \in {0, 2 * shellDone.range}

C20_StageStep ==
    IF getRange(shell') = getRange(shell)
    THEN shell'.m_stage \in {shell.m_stage, shell.m_stage + 1}
    ELSE /\ shell.m_stage = LastStage(shell)
         /\ shell'.m_stage = 0

C20_ShellOrdering == [](C20_StageState) /\ [][C20_StageStep]_vars

\* a 3D shell has been completed, and the enumerator stands on the last
\* offset of the +z face of the next shell, which has the largest range
C20_Witness ==
    /\ ~shell.m_is2D
    /\ shellDone.range = MaxRange - 1
    /\ shellDone.range > 0
    /\ shell.m_range = MaxRange
    /\ shell.m_stage = 5
    /\ Len(shellOut) = ShellCount(MaxRange, FALSE)

(***************************************************************************)
(* C21: one operator++ changes a coordinate or the stage of an             *)
(* IteratorCellShell, in every state it reaches, the shell of range 0 and  *)
(* the last offset of a shell included; the enumerator after ++ is never   *)
(* equal, by operator==, to the one before.                                *)
(***************************************************************************)
Position(it) == <<it.m_current_x, it.m_current_y, it.m_current_z, it.m_stage>>

Moves(a, b) ==
    /\ Position(a) # Position(b)
    /\ ~OperatorEq(a, b)
    /\ ~OperatorEq(b, a)

C21_NextMoves == Moves(shell, OperatorInc(shell))

C21_AdvanceMoves ==
    /\ [](C21_NextMoves)
    /\ [][shell' = OperatorInc(shell) /\ Moves(shell, shell')]_vars

\* the enumerator has been advanced from the last offset of a 3D shell to
\* the first offset of the next shell, and from the offset of shell 0 before
C21_Witness ==
    /\ ~shell.m_is2D
    /\ shellStart = 0
    /\ shellDone.range = MaxRange - 1
    /\ shellDone.range > 0
    /\ Len(shellOut) = 1
    /\ shell.m_stage = 0

(***************************************************************************)
(* C22: every list getCellNeighbors returns or stores, on every grid and   *)
(* for every cell, holds no cell id twice and holds exactly the wrapped    *)
(* ids of the offsets within the shell radius, the cell itself among them; *)
(* along an axis of fewer than 2 * radius + 1 cells, where offsets wrap    *)
(* onto the same cell, each cell of the axis is counted once.              *)
(***************************************************************************)
NeighborRadius == NeighborShellEnd - 1

\* the number of cells an axis of n cells contributes to a neighbor list
AxisReach(n) == IF n < 2 * NeighborRadius + 1 THEN n ELSE 2 * NeighborRadius + 1

NeighborCount ==
    AxisReach(m_cell_index[1]) * AxisReach(m_cell_index[2])
        * (IF m_box.is2D THEN 1 ELSE AxisReach(m_cell_index[3]))

DuplicateFree(cell, list) ==
    /\ NoDup(list)
    /\ SeqSet(list) = NeighborSetOf(cell)
    /\ cell \in SeqSet(list)
    /\ Len(list) = NeighborCount
    /\ Len(list) <= TotalCount(0, NeighborShellEnd, m_box.is2D)

C22_DuplicateFree ==
    /\ cnLast # <<>> => DuplicateFree(cnLast[1].cell, cnLast[1].list)
    /\ \A c \in DOMAIN m_cell_neighbors : DuplicateFree(c, m_cell_neighbors[c])

\* on a 3D grid of the largest size with two cells along an axis, the list
\* of every cell is stored, and the list returned last has fewer cells than
\* there are offsets
C22_Witness ==
    /\ cnLast # <<>>
    /\ ~m_box.is2D
    /\ getNumElements(m_cell_index) = CacheMaxCells
    /\ \E a \in 1..3 : m_cell_index[a] = 2
    /\ DOMAIN m_cell_neighbors = 0..(CacheMaxCells - 1)
    /\ Len(cnLast[1].list) > 1
    /\ Len(cnLast[1].list) < TotalCount(0, NeighborShellEnd, FALSE)

(***************************************************************************)
(* C23: the extra search width of a ball-query iterator is 0 when r_max    *)
(* equals the cell width and 1 for every other r_max; it is set by the     *)
(* constructor and no next() changes it; the last shell the iterator       *)
(* scans is the last shell whose range times the cell width is within      *)
(* r_max, and one shell more when the extra search width is 1.             *)
(***************************************************************************)
\* the last shell with range * cell width <= r_max
MinimalShell == qreq.r_max \div m_cell_width

C23_ExtraState ==
    /\ qit.m_extra_search_width \in {0, 1}
    /\ qit.m_extra_search_width = 0 <=> qreq.r_max = m_cell_width
    /\ qit.m_r_max = qreq.r_max
    /\ getRange(qit.m_neigh_cell_iter)
          <= MinimalShell + qit.m_extra_search_width + 1
    /\ qit.m_finished =>
          getRange(qit.m_neigh_cell_iter)
              = MinimalShell + qit.m_extra_search_width + 1

C23_ExtraSearchWidth ==
    /\ [](C23_ExtraState)
    /\ [][qit'.m_extra_search_width = qit.m_extra_search_width]_vars

\* a query whose r_max is the cell width is done without an extra shell,
\* having returned a point of a cell next to the query point's cell
C23_Witness ==
    /\ qit.m_finished
    /\ qreq.r_max = m_cell_width
    /\ qit.m_extra_search_width = 0
    /\ getRange(qit.m_neigh_cell_iter) = 2
    /\ \E i \in 1..Len(qout) :
          getCell(m_box, m_cell_index, m_points[qout[i].ref_id + 1])
              # getCell(m_box, m_cell_index, qit.m_query_point)

(***************************************************************************)
(* C24: on a built cell list and for every cell, next() called until       *)
(* atEnd() is true returns the points of the cell, the most recently       *)
(* inserted first, and then the terminator; every slot read is inside the  *)
(* array except by a next() called while atEnd() is true; atEnd() is true  *)
(* exactly when the last next() or begin() returned the terminator; and    *)
(* begin(), from any position of the cursor, starts the same sequence      *)
(* again.                                                                  *)
(***************************************************************************)
\* the points of the cell in descending index, which is the reverse of the
\* order of insertion
RECURSIVE Descending(_)
Descending(S) ==
    IF S = {} THEN <<>>
    ELSE LET m == CHOOSE x \in S : \A y \in S : x >= y
         IN <<m>> \o Descending(S \ {m})

PointsOfCell(cell) ==
    {p \in 0..(m_n_points - 1) : getCell(m_box, m_cell_index, m_points[p + 1]) = cell}

C24_CursorProtocol ==
    cursor # <<>> =>
        LET it == cursor.it
            exp == Descending(PointsOfCell(it.m_cell))
        IN /\ cursor.reads \subseteq 0..(m_n_points + getNumElements(m_cell_index) - 1)
           /\ \A r \in cursor.stray : r.op = "next" /\ r.atEnd
           /\ cursor.lost = "no" =>
                 /\ IsPrefix(cursor.yield, exp)
                 /\ atEnd(it) <=> cursor.last = <<LINK_CELL_TERMINATOR>>
                 /\ atEnd(it) => cursor.yield = exp
                 /\ cursor.last # <<>> /\ ~atEnd(it) =>
                       /\ cursor.yield # <<>>
                       /\ cursor.last = <<cursor.yield[Len(cursor.yield)]>>
                 /\ cursor.last = <<>> => it.m_cur_idx = BeginSlot(it)
                 /\ cursor.stray = {} /\ cursor.begins = 0 =>
                       Cardinality(cursor.reads)
                           = Len(cursor.yield) + (IF atEnd(it) THEN 1 ELSE 0)

\* a cursor was run to the end of a cell of two or more points, next() was
\* called on it once more, and after begin() it was run to the end again
C24_Witness ==
    /\ cursor # <<>>
    /\ cursor.lost = "no"
    /\ cursor.begins = CurMaxBegins
    /\ cursor.stray # {}
    /\ atEnd(cursor.it)
    /\ Len(cursor.yield) >= 2
    /\ cursor.yield[1] > cursor.yield[2]

Init ==
    InitShell \/ InitWrap \/ InitCellList \/ InitBall \/ InitCache \/ InitDriver
    \/ InitKnn \/ InitCoord \/ InitShellPair \/ InitEts \/ InitCursor

Next ==
    NextShell \/ NextWrap \/ NextCellList \/ NextBall \/ NextCache \/ NextDriver
    \/ NextKnn \/ NextCoord \/ NextShellPair \/ NextEts \/ NextCursor

Spec == Init /\ [][Next]_vars

=============================================================================
